---- MODULE Spec2Model ----
(***************************************************************************)
(* ATPI Chrome extension: the resolution engine.                           *)
(*                                                                         *)
(*   background service worker  handleUrlResolution                        *)
(*   lib/atpi-resolver.js       atpiResolver (resolve, resolveLocal, ...)  *)
(*   lib/handle-resolvers       UnifiedHandleResolver and its strategies   *)
(*                                                                         *)
(* One resolution request is in flight at a time.  Every await of the code *)
(* is a position of pc; an action is the code that runs between two        *)
(* awaits.  Time is counted in seconds (1000 ms of Date.now()).  Strings   *)
(* are sequences of tokens, so that startsWith / endsWith / split / replace*)
(* are computed on them.                                                   *)
(***************************************************************************)
EXTENDS Integers, Sequences, FiniteSets, TLC

VARIABLES
  now,          \* Date.now(), in seconds
  pc,           \* position of the request in flight
  handleCache,  \* UnifiedHandleResolver.cache : handle -> {data, timestamp}, with the
                \* entry's position in the Map's insertion order (seq)
  didCache,     \* atpiResolver didCache       : did -> {serviceEndpoint, timestamp}
  call,         \* arguments and options of atpiResolver.resolve
  loc,          \* locals of resolveLocal: parsed, did, serviceEndpoint
  hr,           \* locals of UnifiedHandleResolver.resolve
  xr,           \* locals of XrpcHandleResolver.resolve
  dns,          \* per-provider promises of DnsHandleResolver.resolve
  net,          \* the pending fetches: phase, abort timer, response
  requests,     \* the network requests issued by the request in flight
  outcome,      \* what atpiResolver.resolve returned or threw
  pool,         \* the regional hosts getAllServers() returns (configuration)
  popup,        \* popup.js: the clear-cache handler's position, the status text and
                \* the CLEAR_CACHE message on its way to the active tab
  urlCache,     \* overlay.js urlCache: per mode, the URLs with a cached result
  storedMode,   \* chrome.storage.sync 'mode': the persisted preference
  options,      \* the options object UnifiedHandleResolver was constructed with
  rival,        \* a second call of UnifiedHandleResolver.resolve, overlapping
                \* the request in flight
  overlay       \* overlay.js: currentOverlay, isPinned, currentMode and the
                \* handleHover calls waiting for their response

\* the state outside the service worker's request in flight and the popup
outside == <<options, rival, overlay>>

vars == <<now, pc, handleCache, didCache, call, loc, hr, xr, dns, net, requests, outcome,
          pool, popup, urlCache, storedMode, outside>>

----------------------------------------------------------------------------
(* Program constants (seconds).                                             *)

DNS_TIMEOUT == 3
WELLKNOWN_TIMEOUT == 3
XRPC_TIMEOUT == 5
HANDLE_CACHE_TTL == 300
CACHE_TTL == 300
HOVER_TIMEOUT == 10
XRPC_MAX_ATTEMPTS == 5

(* Bounds of the model.                                                     *)

\* regional hosts in the pool handed to XrpcHandleResolver
PoolSize == 2
\* the most tokens after the first '/' of the path of a generated AT-URL
MaxTail == 4
\* the most tokens of a generated well-known body
MaxText == 4
\* the most answers of a generated DNS response
MaxAnswers == 2
\* the most overlays created by hovers
MaxHovers == 3
\* the most entries of a pool that may list a host twice
MaxListed == 3
\* the largest pool handed to XrpcHandleResolver where pools of all sizes are tried
MaxPool == 6
\* no abort timer is waited for beyond this instant
MaxTimerNow == 11
\* the clock is not advanced beyond this instant between requests
MaxNow == 301

----------------------------------------------------------------------------
(* Strings.                                                                 *)

Null == <<>>

StartsWith(s, tok) == Len(s) > 0 /\ s[1] = tok
EndsWith(s, tok) == Len(s) > 0 /\ s[Len(s)] = tok

BobHandle == <<"bob", ".example">>
AliceHandle == <<"alice", ".bsky.social">>
DidPlc == <<"did:", "plc:", "abc123">>
DidWeb == <<"did:", "web:", "example.com">>
DidKey == <<"did:", "key:", "z6Mk">>

Handles == {BobHandle, AliceHandle}

\* 'at://' + identifier [+ '/' + collection [+ '/' + rkey]]
AtUrl(id, rest) == <<"at://">> \o id \o rest

Urls ==
  { AtUrl(BobHandle, <<"/", "app.bsky.feed.post", "/", "xyz">>),
    AtUrl(AliceHandle, <<>>),
    AtUrl(DidPlc, <<"/", "app.bsky.feed.post">>),
    AtUrl(DidWeb, <<>>),
    AtUrl(DidKey, <<>>),
    <<"https://", "example.com", "/", "page">> }

\* String.prototype.split('/'): the segments between the separators
RECURSIVE Split(_, _)
Split(s, sep) ==
  IF s = <<>> THEN << <<>> >>
  ELSE LET rest == Split(Tail(s), sep)
       IN  IF Head(s) = sep THEN << <<>> >> \o rest
           ELSE << <<Head(s)>> \o rest[1] >> \o Tail(rest)

\* parts[i] || null  (parts is 0-based in the code)
PartOrNull(parts, i) == IF Len(parts) >= i + 1 /\ parts[i + 1] # <<>> THEN parts[i + 1] ELSE Null

\* an Error and its message: the template, the handle / DID / value
\* interpolated into it, an interpolated HTTP status, and (for the handle
\* resolver's aggregate) the interpolated method/reason pairs
Err(tpl, subject, status, details) ==
  [tpl |-> tpl, subject |-> subject, status |-> status, details |-> details]

NoError == Err("", <<>>, 0, <<>>)

Error(tpl) == Err(tpl, <<>>, 0, <<>>)
ErrorOn(tpl, subject) == Err(tpl, subject, 0, <<>>)
ErrorHttp(tpl, status) == Err(tpl, <<>>, status, <<>>)

\* error.message.includes(text)
Includes(e, text) ==
  \/ e.tpl = text
  \/ \E i \in 1..Len(e.details) : e.details[i].error.tpl = text

\* response.ok
Ok(status) == status >= 200 /\ status <= 299

----------------------------------------------------------------------------
(* atpi-resolver.js: URL parsing.                                           *)

validateUrl(url) ==
  IF ~StartsWith(url, "at://")
  THEN [ok |-> FALSE, error |-> Error("URL must start with at://"),
        identifier |-> Null, collection |-> Null, rkey |-> Null]
  ELSE LET parts == Split(Tail(url), "/")
       IN  [ok |-> TRUE, error |-> NoError,
            identifier |-> parts[1],
            collection |-> PartOrNull(parts, 1),
            rkey |-> PartOrNull(parts, 2)]

parseIdentifier(identifier) ==
  IF StartsWith(identifier, "did:")
  THEN [type |-> "did", value |-> identifier]
  ELSE [type |-> "handle", value |-> identifier]

\* (variant) the URL is fetched as it is
transformUrlAsIs(url) == url

\* url.replace(/^at:\/\//, baseUrl + 'at://')
transformUrl(url) ==
  IF StartsWith(url, "at://") THEN <<"https://atpi.">> \o url ELSE url

----------------------------------------------------------------------------
(* The state of the program as one record, so that the code that runs       *)
(* between two awaits is a function from state to state.                    *)

Cur ==
  [pc |-> pc, handleCache |-> handleCache, didCache |-> didCache, call |-> call,
   loc |-> loc, hr |-> hr, xr |-> xr, dns |-> dns, net |-> net,
   requests |-> requests, outcome |-> outcome]

Become(c) ==
  /\ pc' = c.pc
  /\ handleCache' = c.handleCache
  /\ didCache' = c.didCache
  /\ call' = c.call
  /\ loc' = c.loc
  /\ hr' = c.hr
  /\ xr' = c.xr
  /\ dns' = c.dns
  /\ net' = c.net
  /\ requests' = c.requests
  /\ outcome' = c.outcome
  /\ UNCHANGED <<pool, popup, urlCache, storedMode, outside>>

DOH_PROVIDERS == <<"Google", "Cloudflare">>

Slots == 1..Len(DOH_PROVIDERS)

NoFetch == [phase |-> "none", armed |-> FALSE, deadline |-> 0]

\* a request URL: scheme and host (or, for a URL handed through as it came,
\* the whole URL), path, and the query parameters as <<name, value>> pairs
HttpUrl(base, path, query) == [base |-> base, path |-> path, query |-> query]

\* fetch(url, {signal}) behind setTimeout(() => controller.abort(), timeout)
Fetch(c, slot, kind, url, timeout) ==
  [c EXCEPT !.net[slot] = [phase |-> "headers", armed |-> TRUE, deadline |-> now + timeout],
            !.requests = Append(@, [kind |-> kind, url |-> url])]

\* clearTimeout(timeoutId) once fetch has resolved; the body is still to come
AwaitBody(c, slot) == [c EXCEPT !.net[slot] = [@ EXCEPT !.phase = "body", !.armed = FALSE]]

\* clearTimeout(timeoutId); nothing left to await on this fetch
Settle(c, slot) == [c EXCEPT !.net[slot] = NoFetch]

NoOutcome == [status |-> "none", data |-> "", error |-> NoError]

\* atpiResolver.resolve returns data / throws error
Returns(c, data) ==
  [c EXCEPT !.pc = "done", !.outcome = [status |-> "ok", data |-> data, error |-> NoError]]
Throws(c, error) ==
  [c EXCEPT !.pc = "done", !.outcome = [status |-> "error", data |-> "", error |-> error]]

----------------------------------------------------------------------------
(* atpi-resolver.js: resolveRemote and the mode dispatch of resolve.        *)

RemoteStatusError(status) ==
  IF status = 400 THEN Error("Invalid AT Protocol URL or record not found")
  ELSE IF status = 404 THEN Error("Record not found at this AT Protocol URL")
  ELSE IF status = 401 \/ status = 403 THEN Error("Access denied - this record may be private")
  ELSE IF status >= 500 THEN Error("ATPI service error - please try again later")
  ELSE ErrorHttp("Failed to resolve URL (HTTP status)", status)

resolveRemote(c) ==
  [Fetch(c, 1, "remote", HttpUrl(transformUrl(c.call.url), <<>>, <<>>), c.call.options.timeout)
     EXCEPT !.pc = "remote_headers"]

\* (variant) after a fallback the local error is rethrown
RemoteThrowsLocal(c, error) ==
  Throws([c EXCEPT !.call.remoteError = error],
         IF c.call.fellBack THEN c.call.localError ELSE error)

\* resolveRemote threw
RemoteThrows(c, error) == Throws([c EXCEPT !.call.remoteError = error], error)

\* (variant) the catch block of auto mode taken in every mode
LocalThrowsFallsBack(c, error) ==
  resolveRemote([c EXCEPT !.call.fellBack = TRUE, !.call.localError = error])

\* resolveLocal threw: in 'local' mode the error is the caller's, in any mode
\* other than 'remote' and 'local' the catch block calls resolveRemote
LocalThrows(c, error) ==
  IF c.call.options.mode = "local"
  THEN Throws([c EXCEPT !.call.localError = error], error)
  ELSE resolveRemote([c EXCEPT !.call.fellBack = TRUE, !.call.localError = error])

\* (variant) outside mode 'local' the aggregator is asked after the local
\* resolution, whether it failed or not
LocalReturnsAsksRemote(c, data) ==
  IF c.call.options.mode = "local" THEN Returns(c, data)
  ELSE resolveRemote([c EXCEPT !.call.fellBack = TRUE])

LocalReturns(c, data) == Returns(c, data)

----------------------------------------------------------------------------
(* atpi-resolver.js: the record fetch of resolveLocal.                      *)

\* (variant) 401 is not among the statuses of a private record
LocalStatusErrorNo401(status) ==
  IF status = 400 THEN Error("Invalid AT Protocol URL or record not found")
  ELSE IF status = 404 THEN Error("Record not found at this AT Protocol URL")
  ELSE IF status = 403 THEN Error("Access denied - this record may be private")
  ELSE IF status >= 500 THEN Error("Server error - the AT Protocol service is unavailable")
  ELSE ErrorHttp("Failed to resolve URL (HTTP status)", status)

LocalStatusError(status) ==
  IF status = 400 THEN Error("Invalid AT Protocol URL or record not found")
  ELSE IF status = 404 THEN Error("Record not found at this AT Protocol URL")
  ELSE IF status = 401 \/ status = 403 THEN Error("Access denied - this record may be private")
  ELSE IF status >= 500 THEN Error("Server error - the AT Protocol service is unavailable")
  ELSE ErrorHttp("Failed to resolve URL (HTTP status)", status)

\* (variant) without the listRecords branch
xrpcUrlNoList(serviceEndpoint, did, parsed) ==
  IF parsed.collection # Null /\ parsed.rkey # Null
  THEN HttpUrl(serviceEndpoint, <<"/xrpc/", "com.atproto.repo.getRecord">>,
               << <<"repo", did>>, <<"collection", parsed.collection>>, <<"rkey", parsed.rkey>> >>)
  ELSE HttpUrl(serviceEndpoint, <<"/xrpc/", "com.atproto.repo.describeRepo">>,
               << <<"repo", did>> >>)

\* the XRPC URL built from the parsed AT-URL
xrpcUrl(serviceEndpoint, did, parsed) ==
  IF parsed.collection # Null /\ parsed.rkey # Null
  THEN HttpUrl(serviceEndpoint, <<"/xrpc/", "com.atproto.repo.getRecord">>,
               << <<"repo", did>>, <<"collection", parsed.collection>>, <<"rkey", parsed.rkey>> >>)
  ELSE IF parsed.collection # Null
  THEN HttpUrl(serviceEndpoint, <<"/xrpc/", "com.atproto.repo.listRecords">>,
               << <<"repo", did>>, <<"collection", parsed.collection>>, <<"limit", <<"50">> >> >>)
  ELSE HttpUrl(serviceEndpoint, <<"/xrpc/", "com.atproto.repo.describeRepo">>,
               << <<"repo", did>> >>)

fetchRecord(c, serviceEndpoint) ==
  [Fetch([c EXCEPT !.loc.serviceEndpoint = serviceEndpoint], 1, "record",
         xrpcUrl(serviceEndpoint, c.loc.did, c.loc.parsed), c.call.options.timeout)
     EXCEPT !.pc = "record_headers"]

\* a body that response.json() rejects
BadJson == [syntaxError |-> TRUE]

\* fetchWithTimeout: the abort timer fired / fetch rejected on its own
RequestTimeout == Error("Request timeout")
FetchFailed == Error("Failed to fetch")
JsonSyntaxError == Error("Unexpected token in JSON")

\* resolveLocal after fetchWithTimeout(xrpcUrl) has resolved with a response
\* (variant) a record request answered with a server error is issued once more
recordResponseRetry(c, status) ==
  IF status >= 500 /\ Cardinality({ i \in 1..Len(c.requests) : c.requests[i].kind = "record" }) < 2
  THEN fetchRecord(Settle(c, 1), c.loc.serviceEndpoint)
  ELSE IF ~Ok(status)
  THEN LocalThrows(Settle(c, 1), LocalStatusError(status))
  ELSE [AwaitBody(c, 1) EXCEPT !.pc = "record_body"]

recordResponse(c, status) ==
  IF ~Ok(status)
  THEN LocalThrows(Settle(c, 1), LocalStatusError(status))
  ELSE [AwaitBody(c, 1) EXCEPT !.pc = "record_body"]

\* return response.json()
recordJson(c, body) ==
  IF body = BadJson
  THEN LocalThrows(Settle(c, 1), JsonSyntaxError)
  ELSE LocalReturns(Settle(c, 1), body.json)

----------------------------------------------------------------------------
(* atpi-resolver.js: resolveDid.                                            *)

PlcDirectory == <<"https://", "plc.directory">>

\* did.substring(8).replace(/:/g, '/') behind 'https://'
webEndpoint(did) ==
  <<"https://">> \o [i \in 1..(Len(did) - 2) |-> IF did[i + 2] = ":" THEN "/" ELSE did[i + 2]]

didCacheHit(cache, did) ==
  did \in DOMAIN cache /\ now - cache[did].timestamp < CACHE_TTL

\* (variant) every DID that is not did:web is looked up in the directory
resolveDidAnyPlc(c, did) ==
  IF didCacheHit(c.didCache, did)
  THEN fetchRecord(c, c.didCache[did].serviceEndpoint)
  ELSE IF StartsWith(did, "did:") /\ Len(did) > 1 /\ did[2] = "web:"
  THEN fetchRecord(c, webEndpoint(did))
  ELSE [Fetch(c, 1, "plc", HttpUrl(PlcDirectory, <<"/">> \o did, <<>>), c.call.options.timeout)
          EXCEPT !.pc = "did_headers"]

resolveDid(c, did) ==
  IF didCacheHit(c.didCache, did)
  THEN fetchRecord(c, c.didCache[did].serviceEndpoint)
  ELSE IF StartsWith(did, "did:") /\ Len(did) > 1 /\ did[2] = "plc:"
  THEN [Fetch(c, 1, "plc", HttpUrl(PlcDirectory, <<"/">> \o did, <<>>), c.call.options.timeout)
          EXCEPT !.pc = "did_headers"]
  ELSE IF StartsWith(did, "did:") /\ Len(did) > 1 /\ did[2] = "web:"
  THEN fetchRecord(c, webEndpoint(did))
  ELSE LocalThrows(c, ErrorOn("Unsupported DID method", did))

\* (variant) the record is asked for although the directory lookup failed
didResponseGoesOn(c, status) ==
  IF ~Ok(status)
  THEN fetchRecord(Settle(c, 1), c.loc.serviceEndpoint)
  ELSE [AwaitBody(c, 1) EXCEPT !.pc = "did_body"]

didResponse(c, status) ==
  IF ~Ok(status)
  THEN LocalThrows(Settle(c, 1), ErrorOn("DID not found or inaccessible", c.loc.did))
  ELSE [AwaitBody(c, 1) EXCEPT !.pc = "did_body"]

\* data.service?.find(s => s.type === 'AtprotoPersonalDataServer')
findService(data) ==
  LET hits == { i \in 1..Len(data.service) : data.service[i].type = "AtprotoPersonalDataServer" }
  IN  IF hits = {} THEN Null
      ELSE data.service[CHOOSE i \in hits : \A j \in hits : i <= j].serviceEndpoint

\* (variant) the entry is written before the service is looked for
didJsonCachesFirst(c, data) ==
  IF data = BadJson
  THEN LocalThrows(Settle(c, 1), JsonSyntaxError)
  ELSE LET did == c.loc.did
           entry == [serviceEndpoint |-> findService(data), timestamp |-> now]
           cached == [d \in DOMAIN c.didCache \cup {did} |->
                        IF d = did THEN entry ELSE c.didCache[d]]
           e == [Settle(c, 1) EXCEPT !.didCache = cached]
       IN  IF findService(data) = Null
           THEN LocalThrows(e, Error("No AT Protocol server found for this DID"))
           ELSE fetchRecord(e, findService(data))

\* (variant) the endpoint found is not cached
didJsonNoCache(c, data) ==
  IF data = BadJson
  THEN LocalThrows(Settle(c, 1), JsonSyntaxError)
  ELSE IF findService(data) = Null
  THEN LocalThrows(Settle(c, 1), Error("No AT Protocol server found for this DID"))
  ELSE fetchRecord(Settle(c, 1), findService(data))

didJson(c, data) ==
  IF data = BadJson
  THEN LocalThrows(Settle(c, 1), JsonSyntaxError)
  ELSE IF findService(data) = Null
  THEN LocalThrows(Settle(c, 1), Error("No AT Protocol server found for this DID"))
  ELSE LET did == c.loc.did
           entry == [serviceEndpoint |-> findService(data), timestamp |-> now]
           cached == [d \in DOMAIN c.didCache \cup {did} |->
                        IF d = did THEN entry ELSE c.didCache[d]]
       IN  fetchRecord([Settle(c, 1) EXCEPT !.didCache = cached], findService(data))

\* const did = await resolveHandle(...); const serviceEndpoint = await resolveDid(did, timeout)
handleToDid(c, did) == resolveDid([c EXCEPT !.loc.did = did], did)

----------------------------------------------------------------------------
(* handle-resolvers/index.js: UnifiedHandleResolver, cache and outcome.     *)

HANDLE_CACHE_MAX == 1000

NoResult == [none |-> TRUE]

isValidDid(did) ==
  did # <<>> /\ StartsWith(did, "did:") /\ Len(did) > 1 /\ did[2] \in {"plc:", "web:"}

\* (variant) >= in place of >
cacheExpiredAtTtl(cache, handle) == now - cache[handle].timestamp >= HANDLE_CACHE_TTL

\* getFromCache: an entry older than cacheTTL is deleted and not served
cacheExpired(cache, handle) == now - cache[handle].timestamp > HANDLE_CACHE_TTL

getFromCache(cache, handle) ==
  IF handle \notin DOMAIN cache THEN NoResult
  ELSE IF cacheExpired(cache, handle) THEN NoResult
  ELSE cache[handle].data

\* Map.delete of a set of keys: the entries left keep their relative order
cacheDelete(cache, keys) ==
  IF keys = {} THEN cache
  ELSE LET gone == { cache[k].seq : k \in keys }
       IN  [h \in DOMAIN cache \ keys |->
              [cache[h] EXCEPT !.seq = @ - Cardinality(gone \cap (1 .. (@ - 1)))]]

\* (variant) a read of an entry that is served sets its timestamp to the
\* time of the read
cacheAfterGetSliding(cache, handle) ==
  IF handle \notin DOMAIN cache THEN cache
  ELSE IF cacheExpired(cache, handle) THEN cacheDelete(cache, {handle})
  ELSE [cache EXCEPT ![handle].timestamp = now]

cacheAfterGet(cache, handle) ==
  IF handle \in DOMAIN cache /\ cacheExpired(cache, handle)
  THEN cacheDelete(cache, {handle})
  ELSE cache

\* Math.floor(entries.length * 0.2)
toRemove(cache) == (Cardinality(DOMAIN cache) * 2) \div 10

\* the first n keys of the entries sorted by timestamp (the sort is stable:
\* entries of one timestamp stay in insertion order), computed timestamp by
\* timestamp: the entries of a timestamp are all among the first n, or none
\* is, or the earliest inserted of them are
firstByTimestamp(cache, n) ==
  LET D == DOMAIN cache
      Times == { cache[h].timestamp : h \in D }
      firstOf(t) ==
        LET same == { h \in D : cache[h].timestamp = t }
            older == Cardinality({ h \in D : cache[h].timestamp < t })
        IN  IF older + Cardinality(same) <= n THEN same
            ELSE IF older >= n THEN {}
            ELSE LET seqs == { cache[g].seq : g \in same }
                     left == n - older
                 IN  { h \in same :
                         Cardinality(seqs \cap (1 .. (cache[h].seq - 1))) < left }
  IN  UNION { firstOf(t) : t \in Times }

\* (variant) the number of entries to remove rounded up
oldestEntriesCeil(cache) == firstByTimestamp(cache, (Cardinality(DOMAIN cache) * 2 + 9) \div 10)

\* entries[0 .. toRemove-1] of the entries sorted by timestamp
oldestEntries(cache) == firstByTimestamp(cache, toRemove(cache))

\* Map.set: an existing key keeps its position, a new key goes last
cacheSet(cache, handle, result) ==
  IF handle \in DOMAIN cache
  THEN [cache EXCEPT ![handle] = [data |-> result, timestamp |-> now, seq |-> @.seq]]
  ELSE cache @@ (handle :> [data |-> result, timestamp |-> now,
                            seq |-> Cardinality(DOMAIN cache) + 1])

cacheResult(cache, handle, result) ==
  LET set == cacheSet(cache, handle, result)
  IN  IF Cardinality(DOMAIN set) > HANDLE_CACHE_MAX
      THEN cacheDelete(set, oldestEntries(set))
      ELSE set

\* atpi-resolver.js resolveHandle: the catch block around handleResolver.resolve
resolveHandleCatch(c, error) ==
  IF Includes(error, "Failed to resolve handle")
  THEN LocalThrows(c, ErrorOn("Handle not found - user may not exist", c.hr.handle))
  ELSE LocalThrows(c, error)

\* the end of UnifiedHandleResolver.resolve: throw the aggregate, or cache and return
finishResolve(c) ==
  IF c.hr.result = NoResult
  THEN LET error == Err("Failed to resolve handle", c.hr.handle, 0, c.hr.errors)
       IN  resolveHandleCatch([c EXCEPT !.hr.thrown = error], error)
  ELSE handleToDid([c EXCEPT !.handleCache = cacheResult(@, c.hr.handle, c.hr.result)],
                   c.hr.result.did)

\* (variant) errors.unshift in place of errors.push
strategyFailedUnshift(c, method, error) ==
  [c EXCEPT !.hr.errors = <<[method |-> method, error |-> error]>> \o @]

\* a strategy threw: errors.push({method, error: error.message})
strategyFailed(c, method, error) ==
  [c EXCEPT !.hr.errors = Append(@, [method |-> method, error |-> error])]

strategySucceeded(c, result) == [c EXCEPT !.hr.result = result]

----------------------------------------------------------------------------
(* handle-resolvers/index.js: XrpcHandleResolver.                           *)

PDS_PRIMARY == <<"https://", "public.api.bsky.app">>

RegionalHosts ==
  <<"amanita.us-east.host.bsky.network", "blusher.us-east.host.bsky.network",
    "coral.us-east.host.bsky.network", "earthstar.us-east.host.bsky.network",
    "elfcup.us-east.host.bsky.network", "enoki.us-east.host.bsky.network",
    "helvella.us-east.host.bsky.network", "inkcap.us-east.host.bsky.network">>

\* pds-endpoints.js getAllServers: the hosts of all regions, in order
getAllServers == pool

NoServer == ""

NoXrpc == [stage |-> "none", baseUrl |-> <<>>, i |-> 0, attempts |-> 0,
           triedServers |-> {}, server |-> NoServer, error |-> NoError]

Min(a, b) == IF a < b THEN a ELSE b

queryEndpoint(c, stage, baseUrl) ==
  [Fetch(c, 1, "xrpc",
         HttpUrl(baseUrl, <<"/xrpc/", "com.atproto.identity.resolveHandle">>,
                 << <<"handle", c.hr.handle>> >>),
         XRPC_TIMEOUT)
     EXCEPT !.pc = "xrpc_headers", !.xr.stage = stage, !.xr.baseUrl = baseUrl]

\* XrpcHandleResolver.resolve threw / returned: back in UnifiedHandleResolver.resolve
xrpcThrows(c, error) ==
  finishResolve(strategyFailed([c EXCEPT !.xr.stage = "none", !.xr.error = NoError],
                               "xrpc", error))

xrpcReturns(c, result) ==
  finishResolve(strategySucceeded([c EXCEPT !.xr.stage = "none", !.xr.error = NoError],
                                  result))

\* the head of the for loop over the random servers
xrpcLoop(c) ==
  IF c.xr.i < c.xr.attempts
  THEN [c EXCEPT !.pc = "xrpc_draw"]
  ELSE xrpcThrows(c, ErrorOn("XRPC resolution failed for handle", c.hr.handle))

\* after the primary endpoint failed: getAllServers, attempts, triedServers
afterPrimary(c) ==
  IF Len(getAllServers) = 0
  THEN xrpcThrows(c, Error("No PDS servers available"))
  ELSE xrpcLoop([c EXCEPT !.xr.attempts = Min(XRPC_MAX_ATTEMPTS, Len(getAllServers)),
                          !.xr.triedServers = {}, !.xr.i = 0])

\* (variant) the drawn host is queried whether or not it was tried before
xrpcDrawAny(c, server) ==
  IF server = NoServer
  THEN xrpcThrows([c EXCEPT !.xr.server = server],
                  ErrorOn("XRPC resolution failed for handle", c.hr.handle))
  ELSE queryEndpoint([c EXCEPT !.xr.server = server, !.xr.triedServers = @ \cup {server}],
                     "pool", <<"https://", server>>)

\* one pass of do { server = getRandomServerFromAll() } while (...), and, when
\* the loop is left, the rest of the iteration up to the query
xrpcDraw(c, server) ==
  IF server \in c.xr.triedServers /\ Cardinality(c.xr.triedServers) < Len(getAllServers)
  THEN [c EXCEPT !.xr.server = server]
  ELSE IF server = NoServer \/ server \in c.xr.triedServers
  THEN xrpcThrows([c EXCEPT !.xr.server = server],
                  ErrorOn("XRPC resolution failed for handle", c.hr.handle))
  ELSE queryEndpoint([c EXCEPT !.xr.server = server, !.xr.triedServers = @ \cup {server}],
                     "pool", <<"https://", server>>)

\* queryEndpoint threw: the catch (error) of the primary attempt, or of a pool
\* attempt followed by i++; the error is logged and dropped
queryThrows(c, error) ==
  IF c.xr.stage = "primary"
  THEN afterPrimary([Settle(c, 1) EXCEPT !.xr.error = error])
  ELSE xrpcLoop([Settle(c, 1) EXCEPT !.xr.i = @ + 1, !.xr.error = error])

xrpcParseResponse(c, data) ==
  IF data = BadJson THEN [ok |-> FALSE, error |-> JsonSyntaxError]
  ELSE IF data.did = Null
  THEN [ok |-> FALSE, error |-> ErrorOn("No DID in XRPC response for handle", c.hr.handle)]
  ELSE IF ~isValidDid(data.did)
  THEN [ok |-> FALSE, error |-> ErrorOn("Invalid DID in XRPC response", data.did)]
  ELSE [ok |-> TRUE, error |-> NoError]

xrpcResponse(c, status) ==
  IF ~Ok(status)
  THEN IF status = 400
       THEN [AwaitBody(c, 1) EXCEPT !.pc = "xrpc_error_body"]
       ELSE queryThrows(c, ErrorHttp("HTTP status: XRPC query failed", status))
  ELSE [AwaitBody(c, 1) EXCEPT !.pc = "xrpc_body"]

\* const error = await response.json().catch(() => ({}))
xrpcErrorJson(c, body) ==
  IF body # BadJson /\ body.error = "InvalidHandle"
  THEN queryThrows(c, ErrorOn("Invalid handle format", c.hr.handle))
  ELSE queryThrows(c, ErrorOn("Handle not found", c.hr.handle))

\* (variant) the DID of the XRPC response is taken without the validity test
xrpcJsonUnchecked(c, data) ==
  IF data # BadJson /\ data.did # Null
  THEN xrpcReturns(Settle(c, 1),
                   [did |-> data.did, method |-> "xrpc", endpoint |-> c.xr.baseUrl])
  ELSE queryThrows(c, xrpcParseResponse(c, data).error)

xrpcJson(c, data) ==
  IF xrpcParseResponse(c, data).ok
  THEN xrpcReturns(Settle(c, 1),
                   [did |-> data.did, method |-> "xrpc", endpoint |-> c.xr.baseUrl])
  ELSE queryThrows(c, xrpcParseResponse(c, data).error)

startXrpc(c) == queryEndpoint([c EXCEPT !.xr = NoXrpc], "primary", PDS_PRIMARY)

tryXrpc(c) == IF c.hr.result = NoResult THEN startXrpc(c) ELSE finishResolve(c)

----------------------------------------------------------------------------
(* handle-resolvers/index.js: WellKnownHandleResolver.                      *)

IsSpace(tok) == tok \in {" ", "\n", "\r", "\t"}

RECURSIVE TrimStart(_)
TrimStart(s) == IF s # <<>> /\ IsSpace(Head(s)) THEN TrimStart(Tail(s)) ELSE s

RECURSIVE TrimEnd(_)
TrimEnd(s) == IF s # <<>> /\ IsSpace(s[Len(s)]) THEN TrimEnd(SubSeq(s, 1, Len(s) - 1)) ELSE s

\* text.trim()
Trim(s) == TrimEnd(TrimStart(s))

\* (variant) the body is not trimmed before it is split
wkCandidateUntrimmed(text) == Split(text, "\n")[1]

\* text.trim().split('\n')[0]
wkCandidate(text) == Split(Trim(text), "\n")[1]

wkParseResponse(c, text) ==
  IF wkCandidate(text) = <<>>
  THEN [ok |-> FALSE, error |-> ErrorOn("Empty well-known response for handle", c.hr.handle)]
  ELSE IF ~isValidDid(wkCandidate(text))
  THEN [ok |-> FALSE, error |-> ErrorOn("Invalid DID in well-known response", wkCandidate(text))]
  ELSE [ok |-> TRUE, error |-> NoError]

\* (variant) the well-known failure is not caught and ends the resolution
wkThrowsAborts(c, error) == finishResolve(strategyFailed(Settle(c, 1), "wellknown", error))

\* WellKnownHandleResolver.resolve threw / returned: back in UnifiedHandleResolver.resolve
wkThrows(c, error) == tryXrpc(strategyFailed(Settle(c, 1), "wellknown", error))
wkReturns(c, result) == tryXrpc(strategySucceeded(Settle(c, 1), result))

wkResponse(c, status) ==
  IF status >= 300 /\ status < 400
  THEN wkThrows(c, Error("Redirects not allowed for well-known resolution"))
  ELSE IF ~Ok(status)
  THEN IF status = 404
       THEN wkThrows(c, ErrorOn("No well-known record found for handle", c.hr.handle))
       ELSE wkThrows(c, ErrorHttp("HTTP status: Failed to fetch well-known", status))
  ELSE [AwaitBody(c, 1) EXCEPT !.pc = "wk_body"]

\* (variant) redirect: 'follow': fetch goes on to the Location of the redirect
wkRedirectFollows(c, location, status) ==
  [c EXCEPT !.requests = Append(@, [kind |-> "wellknown",
                                     url |-> HttpUrl(location, <<>>, <<>>)])]

\* the host answered with a redirect to location.  With redirect: 'manual'
\* fetch does not follow it and resolves with the response: the 3xx response
\* itself, or in a browser an opaque-redirect response whose status is 0
wkRedirect(c, location, status) == wkResponse(c, status)

wkText(c, text) ==
  IF wkParseResponse(c, text).ok
  THEN wkReturns(c, [did |-> wkCandidate(text), method |-> "wellknown"])
  ELSE wkThrows(c, wkParseResponse(c, text).error)

startWellKnown(c) ==
  [Fetch(c, 1, "wellknown",
         HttpUrl(<<"https://">> \o c.hr.handle, <<"/.well-known/atproto-did">>, <<>>),
         WELLKNOWN_TIMEOUT)
     EXCEPT !.pc = "wk_headers"]

\* (variant) the !result test dropped
tryWellKnownAlways(c) ==
  IF ~c.hr.isBskyHandle THEN startWellKnown(c) ELSE tryXrpc(c)

tryWellKnown(c) ==
  IF c.hr.result = NoResult /\ ~c.hr.isBskyHandle THEN startWellKnown(c) ELSE tryXrpc(c)

----------------------------------------------------------------------------
(* handle-resolvers/dns-resolver.js: DnsHandleResolver.                     *)

DohUrl(p) ==
  IF DOH_PROVIDERS[p] = "Google" THEN <<"https://", "dns.google", "/resolve">>
  ELSE <<"https://", "cloudflare-dns.com", "/dns-query">>

\* the quotes around a TXT value removed
unquote(txtData) ==
  IF StartsWith(txtData, "\"") /\ EndsWith(txtData, "\"")
  THEN SubSeq(txtData, 2, Len(txtData) - 1)
  ELSE txtData

\* (variant) the quotes are not removed
answerDidQuoted(answer) ==
  IF answer.type = 16 /\ StartsWith(answer.data, "did=") /\ isValidDid(Tail(answer.data))
  THEN Tail(answer.data)
  ELSE Null

\* the DID of one answer, or Null when the answer is skipped
answerDid(answer) ==
  IF answer.type = 16 /\ StartsWith(unquote(answer.data), "did=")
       /\ isValidDid(Tail(unquote(answer.data)))
  THEN Tail(unquote(answer.data))
  ELSE Null

\* parseDnsResponse: the result, or NoResult where the code throws
parseDnsResponse(data) ==
  IF data = BadJson THEN NoResult
  ELSE IF data.Status # 0 THEN NoResult
  ELSE LET hits == { i \in 1..Len(data.Answer) : answerDid(data.Answer[i]) # Null }
       IN  IF hits = {} THEN NoResult
           ELSE [did |-> answerDid(data.Answer[CHOOSE i \in hits : \A j \in hits : i <= j]),
                 method |-> "dns", provider |-> "unknown"]

NoPromises == [p \in Slots |-> [state |-> "none", value |-> NoResult]]

\* (variant) the strategy succeeds only when no provider has failed
dnsAllSettledStrict(c) ==
  IF \A p \in Slots : c.dns[p].value # NoResult
  THEN tryWellKnown(strategySucceeded(c, c.dns[1].value))
  ELSE tryWellKnown(strategyFailed(c, "dns",
                                   ErrorOn("DNS resolution failed for handle", c.hr.handle)))

\* Promise.allSettled has resolved: the first fulfilled, truthy value wins
dnsAllSettled(c) ==
  LET hits == { p \in Slots : c.dns[p].value # NoResult }
  IN  IF hits # {}
      THEN tryWellKnown(strategySucceeded(c,
                                          c.dns[CHOOSE p \in hits : \A q \in hits : p <= q].value))
      ELSE tryWellKnown(strategyFailed(c, "dns",
                                       ErrorOn("DNS resolution failed for handle", c.hr.handle)))

\* (variant) Promise.any in place of Promise.allSettled: the first provider
\* that answers with a DID decides
providerSettledRace(c, p, value) ==
  LET d == [Settle(c, p) EXCEPT !.dns[p] = [state |-> "settled", value |-> value]]
  IN  IF value # NoResult THEN tryWellKnown(strategySucceeded(d, value))
      ELSE IF \A q \in Slots : d.dns[q].state = "settled" THEN dnsAllSettled(d)
      ELSE d

\* queryProvider(provider, handle).catch(() => null) has settled with value
providerSettled(c, p, value) ==
  LET d == [Settle(c, p) EXCEPT !.dns[p] = [state |-> "settled", value |-> value]]
  IN  IF \A q \in Slots : d.dns[q].state = "settled" THEN dnsAllSettled(d) ELSE d

dnsResponse(c, p, status) ==
  IF ~Ok(status) THEN providerSettled(c, p, NoResult) ELSE AwaitBody(c, p)

dnsJson(c, p, data) == providerSettled(c, p, parseDnsResponse(data))

RECURSIVE queryProviders(_, _)
queryProviders(c, p) ==
  IF p > Len(DOH_PROVIDERS) THEN c
  ELSE queryProviders(
         Fetch([c EXCEPT !.dns[p] = [state |-> "pending", value |-> NoResult]], p, "dns",
               HttpUrl(DohUrl(p), <<>>,
                       << <<"name", <<"_atproto.">> \o c.hr.handle>>, <<"type", <<"TXT">> >> >>),
               DNS_TIMEOUT),
         p + 1)

startDns(c) == [queryProviders(c, 1) EXCEPT !.pc = "dns_wait"]

----------------------------------------------------------------------------
(* UnifiedHandleResolver.resolve, resolveLocal, resolve, handleUrlResolution *)

NoHandle == [handle |-> <<>>, cached |-> NoResult, result |-> NoResult, errors |-> <<>>,
             isBskyHandle |-> FALSE, thrown |-> NoError]

\* (variant) the '.bsky.social' test dropped: DNS is tried for every handle
unifiedResolveDnsFirst(c, handle) ==
  LET cached == getFromCache(c.handleCache, handle)
      d == [c EXCEPT !.handleCache = cacheAfterGet(@, handle),
                     !.hr = [NoHandle EXCEPT !.handle = handle,
                                             !.isBskyHandle = EndsWith(handle, ".bsky.social")]]
  IN  IF cached # NoResult
      THEN handleToDid([c EXCEPT !.handleCache = cacheAfterGet(@, handle),
                                 !.hr.handle = handle, !.hr.cached = cached], cached.did)
      ELSE startDns(d)

unifiedResolve(c, handle) ==
  LET cached == getFromCache(c.handleCache, handle)
      d == [c EXCEPT !.handleCache = cacheAfterGet(@, handle),
                     !.hr = [NoHandle EXCEPT !.handle = handle,
                                             !.isBskyHandle = EndsWith(handle, ".bsky.social")]]
  IN  IF cached # NoResult
      THEN handleToDid([c EXCEPT !.handleCache = cacheAfterGet(@, handle),
                                 !.hr.handle = handle, !.hr.cached = cached], cached.did)
      ELSE IF ~d.hr.isBskyHandle THEN startDns(d) ELSE tryWellKnown(d)

NoLocals == [parsed |-> validateUrl(<<>>), did |-> <<>>, serviceEndpoint |-> <<>>]

resolveLocal(c) ==
  LET parsed == validateUrl(c.call.url)
      identifier == parseIdentifier(parsed.identifier)
      d == [c EXCEPT !.loc.parsed = parsed, !.loc.did = identifier.value]
  IN  IF ~parsed.ok THEN LocalThrows(c, parsed.error)
      ELSE IF identifier.type = "handle" THEN unifiedResolve(d, identifier.value)
      ELSE resolveDid(d, identifier.value)

resolve(c) ==
  IF c.call.options.mode = "remote" THEN resolveRemote(c) ELSE resolveLocal(c)

\* (variant) only the DID cache is cleared
clearCachesDidOnly(c) == [c EXCEPT !.didCache = << >>]

\* atpiResolver.clearCaches: didCache.clear(); handleResolver.clearCache()
\* (handleResolver is set when the module loads and has clearCache)
clearCaches(c) == [c EXCEPT !.didCache = << >>, !.handleCache = << >>]

\* request.mode as the content script sent it; "" is an absent mode
Modes == {"local", "remote", "auto", ""}

handleUrlResolution(c, url, mode) ==
  resolve([c EXCEPT
     !.call = [url |-> url,
               options |-> [mode |-> IF mode = "" THEN "local" ELSE mode,
                            timeout |-> HOVER_TIMEOUT],
               startTime |-> now, fellBack |-> FALSE, localError |-> NoError,
               remoteError |-> NoError],
     !.loc = NoLocals, !.hr = NoHandle, !.xr = NoXrpc, !.dns = NoPromises,
     !.net = [s \in Slots |-> NoFetch], !.requests = <<>>, !.outcome = NoOutcome])

\* resolveRemote after fetchWithTimeout has resolved / after the body
remoteResponse(c, status) ==
  IF ~Ok(status)
  THEN RemoteThrows(Settle(c, 1), RemoteStatusError(status))
  ELSE [AwaitBody(c, 1) EXCEPT !.pc = "remote_body"]

remoteJson(c, body) ==
  IF body = BadJson
  THEN RemoteThrows(Settle(c, 1), JsonSyntaxError)
  ELSE Returns(Settle(c, 1), body.json)

----------------------------------------------------------------------------
(* What the network can answer.                                             *)

TxtAnswer(txt) == [type |-> 16, data |-> txt]

DnsStatuses == {200, 503}
DnsBodies ==
  { [Status |-> 0, Answer |-> << TxtAnswer(<<"\"", "did=">> \o DidPlc \o <<"\"">>) >>],
    [Status |-> 0, Answer |-> << TxtAnswer(<<"v=spf1">>), TxtAnswer(<<"did=">> \o DidKey) >>],
    [Status |-> 3, Answer |-> <<>>] }

WkStatuses == {200, 404}
RedirectStatuses == {302, 0}
Locations == { <<"https://", "elsewhere.example", "/.well-known/atproto-did">>,
               <<"https://", "bob", ".example", "/", "did">> }
WkTexts == { DidPlc \o <<"\n">>, <<" ", "\n">> }

XrpcStatuses == {200, 400, 502}
XrpcBodies == { [did |-> DidPlc], [did |-> DidKey], [did |-> Null] }
XrpcErrorBodies == { [error |-> "InvalidHandle"], [error |-> "InvalidRequest"], BadJson }

PdsEndpoint == <<"https://", "pds.example.com">>
PlcStatuses == {200, 404}
PlcDocs ==
  { [service |-> << [type |-> "AtprotoLabeler", serviceEndpoint |-> <<"https://", "mod.example.com">>],
                    [type |-> "AtprotoPersonalDataServer", serviceEndpoint |-> PdsEndpoint] >>],
    [service |-> <<>>],
    BadJson }

RecordStatuses == {200, 400, 401, 403, 404, 418, 500}
RecordBodies == { [json |-> "record"], BadJson }

----------------------------------------------------------------------------
(* The state machine.                                                       *)

\* background.js onInstalled: chrome.storage.sync.set({ mode: 'remote', ... })
InstalledMode == "remote"

\* atpi-resolver.js: the options the extension constructs its
\* UnifiedHandleResolver with.  skipBskySocial stands for a key the
\* constructor does not read ("undefined": the key is not given)
ResolverOptions ==
  [dns |-> [timeout |-> DNS_TIMEOUT], wellKnown |-> [timeout |-> WELLKNOWN_TIMEOUT],
   xrpc |-> [timeout |-> XRPC_TIMEOUT], cacheTTL |-> HANDLE_CACHE_TTL,
   skipBskySocial |-> "undefined"]

\* the same options with a key that asks for the '.bsky.social' shortcut to
\* be left out, or to be taken
ConstructorOptions ==
  { [ResolverOptions EXCEPT !.skipBskySocial = v] : v \in {"undefined", "false", "true"} }

\* no second call of UnifiedHandleResolver.resolve
NoRival == [pc |-> "none", handle |-> <<>>, missed |-> FALSE, wrote |-> FALSE]

\* overlay.js after start-up: no overlay, currentMode read from the storage
NoElement == [id |-> 0, url |-> <<>>, shown |-> [kind |-> "none", url |-> <<>>]]

NoOverlay ==
  [currentOverlay |-> NoElement, isPinned |-> FALSE, currentMode |-> InstalledMode,
   created |-> 0, calls |-> {}]

\* popup.js after DOMContentLoaded: status.textContent = `Mode: ${mode}`
ModeStatus == <<"Mode: ", "local">>

PopupReady == [pc |-> "ready", status |-> ModeStatus, message |-> FALSE]

\* overlay.js: const urlCache = { local: new Map(), remote: new Map() }
NoUrls == [local |-> {}, remote |-> {}]

Init ==
  /\ now = 0
  /\ pc = "idle"
  /\ handleCache = << >>
  /\ didCache = << >>
  /\ call = [url |-> <<>>, options |-> [mode |-> "local", timeout |-> HOVER_TIMEOUT],
             startTime |-> 0, fellBack |-> FALSE, localError |-> NoError,
             remoteError |-> NoError]
  /\ loc = NoLocals
  /\ hr = NoHandle
  /\ xr = NoXrpc
  /\ dns = NoPromises
  /\ net = [s \in Slots |-> NoFetch]
  /\ popup = PopupReady
  /\ urlCache = NoUrls
  /\ storedMode = InstalledMode
  /\ options = ResolverOptions
  /\ rival = NoRival
  /\ overlay = NoOverlay
  /\ requests = <<>>
  /\ outcome = NoOutcome
  /\ pool = SubSeq(RegionalHosts, 1, PoolSize)

Idle == pc \in {"idle", "done"}

\* fetch is pending on slot s / its abort timer can fire (a setTimeout
\* callback runs at or after its deadline; Punctual says the deadline is here)
Pending(s) == net[s].phase = "headers"
TimerDue(s) == net[s].phase = "headers" /\ net[s].armed
Punctual(s) == now >= net[s].deadline

\* the service worker receives RESOLVE_URL
Request(url, mode) ==
  /\ Idle
  /\ Become(handleUrlResolution(Cur, url, mode))
  /\ UNCHANGED now

DnsResponse(p, status) ==
  /\ pc = "dns_wait" /\ Pending(p)
  /\ Become(dnsResponse(Cur, p, status))
  /\ UNCHANGED now

DnsJson(p, data) ==
  /\ pc = "dns_wait" /\ net[p].phase = "body"
  /\ Become(dnsJson(Cur, p, data))
  /\ UNCHANGED now

\* the abort timer fires ('DNS query timeout'), swallowed by .catch(() => null)
DnsTimeout(p) ==
  /\ pc = "dns_wait" /\ TimerDue(p)
  /\ Become(providerSettled(Cur, p, NoResult))
  /\ UNCHANGED now

\* fetch rejects on its own, swallowed by .catch(() => null)
DnsFetchFails(p) ==
  /\ pc = "dns_wait" /\ Pending(p)
  /\ Become(providerSettled(Cur, p, NoResult))
  /\ UNCHANGED now

WkResponse(status) ==
  /\ pc = "wk_headers" /\ Pending(1)
  /\ Become(wkResponse(Cur, status))
  /\ UNCHANGED now

WkRedirect(location, status) ==
  /\ pc = "wk_headers" /\ Pending(1)
  /\ Become(wkRedirect(Cur, location, status))
  /\ UNCHANGED now

WkText(text) ==
  /\ pc = "wk_body"
  /\ Become(wkText(Cur, text))
  /\ UNCHANGED now

WkTimeout ==
  /\ pc = "wk_headers" /\ TimerDue(1)
  /\ Become(wkThrows(Cur, Error("Well-known fetch timeout")))
  /\ UNCHANGED now

WkFetchFails ==
  /\ pc = "wk_headers" /\ Pending(1)
  /\ Become(wkThrows(Cur, FetchFailed))
  /\ UNCHANGED now

XrpcResponse(status) ==
  /\ pc = "xrpc_headers" /\ Pending(1)
  /\ Become(xrpcResponse(Cur, status))
  /\ UNCHANGED now

XrpcErrorJson(body) ==
  /\ pc = "xrpc_error_body"
  /\ Become(xrpcErrorJson(Cur, body))
  /\ UNCHANGED now

XrpcJson(data) ==
  /\ pc = "xrpc_body"
  /\ Become(xrpcJson(Cur, data))
  /\ UNCHANGED now

XrpcTimeout ==
  /\ pc = "xrpc_headers" /\ TimerDue(1)
  /\ Become(queryThrows(Cur, Error("XRPC query timeout")))
  /\ UNCHANGED now

XrpcFetchFails ==
  /\ pc = "xrpc_headers" /\ Pending(1)
  /\ Become(queryThrows(Cur, FetchFailed))
  /\ UNCHANGED now

\* getRandomServerFromAll() returns any host of the pool
XrpcDraw(server) ==
  /\ pc = "xrpc_draw"
  /\ Become(xrpcDraw(Cur, server))
  /\ UNCHANGED now

DidResponse(status) ==
  /\ pc = "did_headers" /\ Pending(1)
  /\ Become(didResponse(Cur, status))
  /\ UNCHANGED now

DidJson(data) ==
  /\ pc = "did_body"
  /\ Become(didJson(Cur, data))
  /\ UNCHANGED now

RecordResponse(status) ==
  /\ pc = "record_headers" /\ Pending(1)
  /\ Become(recordResponse(Cur, status))
  /\ UNCHANGED now

RecordJson(body) ==
  /\ pc = "record_body"
  /\ Become(recordJson(Cur, body))
  /\ UNCHANGED now

\* fetchWithTimeout inside resolveLocal: the abort timer fires / fetch rejects
LocalFetchTimeout ==
  /\ pc \in {"did_headers", "record_headers"} /\ TimerDue(1)
  /\ Become(LocalThrows(Settle(Cur, 1), RequestTimeout))
  /\ UNCHANGED now

LocalFetchFails ==
  /\ pc \in {"did_headers", "record_headers"} /\ Pending(1)
  /\ Become(LocalThrows(Settle(Cur, 1), FetchFailed))
  /\ UNCHANGED now

RemoteResponse(status) ==
  /\ pc = "remote_headers" /\ Pending(1)
  /\ Become(remoteResponse(Cur, status))
  /\ UNCHANGED now

RemoteJson(body) ==
  /\ pc = "remote_body"
  /\ Become(remoteJson(Cur, body))
  /\ UNCHANGED now

RemoteFetchTimeout ==
  /\ pc = "remote_headers" /\ TimerDue(1)
  /\ Become(RemoteThrows(Settle(Cur, 1), RequestTimeout))
  /\ UNCHANGED now

RemoteFetchFails ==
  /\ pc = "remote_headers" /\ Pending(1)
  /\ Become(RemoteThrows(Settle(Cur, 1), FetchFailed))
  /\ UNCHANGED now

\* time passes while fetches are pending, up to the next abort timer
ArmedDeadlines == { net[s].deadline : s \in { t \in Slots : net[t].armed } }

TimePasses ==
  /\ ArmedDeadlines # {}
  /\ LET next == CHOOSE d \in ArmedDeadlines : \A e \in ArmedDeadlines : d <= e
     IN  /\ now < next
         /\ next <= MaxTimerNow
         /\ now' = next
  /\ UNCHANGED <<pc, handleCache, didCache, call, loc, hr, xr, dns, net, requests, outcome,
                 pool, popup, urlCache, storedMode, outside>>

\* time passes between two requests
IdleTick(d) ==
  /\ Idle
  /\ now + d <= MaxNow
  /\ now' = now + d
  /\ UNCHANGED <<pc, handleCache, didCache, call, loc, hr, xr, dns, net, requests, outcome,
                 pool, popup, urlCache, storedMode, outside>>

LocalUrls == { u \in Urls : StartsWith(u, "at://") /\ ~EndsWith(u, ".bsky.social") /\ u[3] # "key:" }

\* Spec: any sequence of requests in any mode, at one instant of the cache
\* clock; an abort timer may fire whenever its fetch is pending.
Next ==
  \/ \E url \in Urls, mode \in Modes : Request(url, mode)
  \/ \E p \in Slots, status \in DnsStatuses : DnsResponse(p, status)
  \/ \E p \in Slots, data \in DnsBodies \cup {BadJson} : DnsJson(p, data)
  \/ \E p \in Slots : DnsTimeout(p)
  \/ \E p \in Slots : DnsFetchFails(p)
  \/ \E status \in WkStatuses : WkResponse(status)
  \/ \E location \in Locations, status \in RedirectStatuses : WkRedirect(location, status)
  \/ \E text \in WkTexts : WkText(text)
  \/ WkTimeout
  \/ WkFetchFails
  \/ \E status \in XrpcStatuses : XrpcResponse(status)
  \/ \E body \in XrpcErrorBodies : XrpcErrorJson(body)
  \/ \E data \in XrpcBodies \cup {BadJson} : XrpcJson(data)
  \/ XrpcTimeout
  \/ XrpcFetchFails
  \/ \E i \in 1..Len(getAllServers) : XrpcDraw(getAllServers[i])
  \/ \E status \in PlcStatuses : DidResponse(status)
  \/ \E data \in PlcDocs : DidJson(data)
  \/ \E status \in RecordStatuses : RecordResponse(status)
  \/ \E body \in RecordBodies : RecordJson(body)
  \/ LocalFetchTimeout
  \/ LocalFetchFails
  \/ \E status \in RecordStatuses : RemoteResponse(status)
  \/ \E body \in RecordBodies : RemoteJson(body)
  \/ RemoteFetchTimeout
  \/ RemoteFetchFails

Spec == Init /\ [][Next]_vars

\* ExpirySpec: local-mode requests separated by idle periods of the length of
\* the time-to-live, so that cache entries age and expire.
ExpiryNext ==
  \/ \E url \in LocalUrls : Request(url, "local")
  \/ \E p \in Slots, status \in DnsStatuses : DnsResponse(p, status)
  \/ \E p \in Slots, data \in DnsBodies \cup {BadJson} : DnsJson(p, data)
  \/ \E p \in Slots : DnsTimeout(p)
  \/ \E p \in Slots : DnsFetchFails(p)
  \/ \E status \in WkStatuses : WkResponse(status)
  \/ \E location \in Locations, status \in RedirectStatuses : WkRedirect(location, status)
  \/ \E text \in WkTexts : WkText(text)
  \/ WkTimeout
  \/ WkFetchFails
  \/ \E status \in XrpcStatuses : XrpcResponse(status)
  \/ \E body \in XrpcErrorBodies : XrpcErrorJson(body)
  \/ \E data \in XrpcBodies \cup {BadJson} : XrpcJson(data)
  \/ XrpcTimeout
  \/ XrpcFetchFails
  \/ \E i \in 1..Len(getAllServers) : XrpcDraw(getAllServers[i])
  \/ \E status \in PlcStatuses : DidResponse(status)
  \/ \E data \in PlcDocs : DidJson(data)
  \/ \E status \in RecordStatuses : RecordResponse(status)
  \/ \E body \in RecordBodies : RecordJson(body)
  \/ LocalFetchTimeout
  \/ LocalFetchFails
  \/ \E d \in {HANDLE_CACHE_TTL, HANDLE_CACHE_TTL + 1} : IdleTick(d)
  \/ now \in {0, HANDLE_CACHE_TTL} /\ IdleTick(1)

ExpirySpec == Init /\ [][ExpiryNext]_vars

\* TimedSpec: one request followed on the clock; an abort timer fires when the
\* clock has reached its deadline, and the clock advances to the next deadline.
TimedNext ==
  \/ \E url \in Urls, mode \in Modes : pc = "idle" /\ Request(url, mode)
  \/ \E p \in Slots, status \in DnsStatuses : DnsResponse(p, status)
  \/ \E p \in Slots, data \in DnsBodies \cup {BadJson} : DnsJson(p, data)
  \/ \E p \in Slots : Punctual(p) /\ DnsTimeout(p)
  \/ \E p \in Slots : DnsFetchFails(p)
  \/ \E status \in WkStatuses : WkResponse(status)
  \/ \E location \in Locations, status \in RedirectStatuses : WkRedirect(location, status)
  \/ \E text \in WkTexts : WkText(text)
  \/ Punctual(1) /\ WkTimeout
  \/ WkFetchFails
  \/ \E status \in XrpcStatuses : XrpcResponse(status)
  \/ \E body \in XrpcErrorBodies : XrpcErrorJson(body)
  \/ \E data \in XrpcBodies \cup {BadJson} : XrpcJson(data)
  \/ Punctual(1) /\ XrpcTimeout
  \/ XrpcFetchFails
  \/ \E i \in 1..Len(getAllServers) : XrpcDraw(getAllServers[i])
  \/ \E status \in PlcStatuses : DidResponse(status)
  \/ \E data \in PlcDocs : DidJson(data)
  \/ \E status \in RecordStatuses : RecordResponse(status)
  \/ \E body \in RecordBodies : RecordJson(body)
  \/ Punctual(1) /\ LocalFetchTimeout
  \/ LocalFetchFails
  \/ \E status \in RecordStatuses : RemoteResponse(status)
  \/ \E body \in RecordBodies : RemoteJson(body)
  \/ Punctual(1) /\ RemoteFetchTimeout
  \/ RemoteFetchFails
  \/ TimePasses

TimedSpec == Init /\ [][TimedNext]_vars

\* atpiResolver.clearCaches() is called; it runs to its end between two
\* awaits of a request in flight, whatever the request's position
ClearCaches ==
  /\ Become(clearCaches(Cur))
  /\ UNCHANGED now

\* overlay.js resolveUrl: a URL with an entry in the cache of the mode is
\* answered by the overlay, any other is sent to the background script
OverlayResolve(url, mode) ==
  /\ url \notin urlCache[mode]
  /\ Request(url, mode)

\* overlay.js resolveUrl: the response without error is cached under the URL
OverlaySet ==
  /\ pc = "done" /\ outcome.status = "ok"
  /\ call.url \notin urlCache[call.options.mode]
  /\ urlCache' = [urlCache EXCEPT ![call.options.mode] = @ \cup {call.url}]
  /\ UNCHANGED <<now, pc, handleCache, didCache, call, loc, hr, xr, dns, net, requests,
                 outcome, pool, popup, storedMode, outside>>

\* popup.js: the click on the clear-cache button, up to
\* await chrome.storage.local.clear() (nothing else reads or writes that area)
ClearCacheClicked ==
  /\ popup.pc = "ready"
  /\ popup' = [popup EXCEPT !.pc = "storage_clear"]
  /\ UNCHANGED <<now, pc, handleCache, didCache, call, loc, hr, xr, dns, net, requests,
                 outcome, pool, urlCache, storedMode, outside>>

\* popup.js: after the storage is cleared, { type: 'CLEAR_CACHE' } is sent to
\* the active tab if there is one, and the status text is set
StorageCleared(tab) ==
  /\ popup.pc = "storage_clear"
  /\ popup' = [pc |-> "ready", status |-> <<"Cache cleared">>,
               message |-> popup.message \/ tab]
  /\ UNCHANGED <<now, pc, handleCache, didCache, call, loc, hr, xr, dns, net, requests,
                 outcome, pool, urlCache, storedMode, outside>>

\* overlay.js onMessage: CLEAR_CACHE runs clearCache() on both mode caches;
\* the background script's listener has no branch for this message type
OverlayClearCache ==
  /\ popup.message
  /\ popup' = [popup EXCEPT !.message = FALSE]
  /\ urlCache' = NoUrls
  /\ UNCHANGED <<now, pc, handleCache, didCache, call, loc, hr, xr, dns, net, requests,
                 outcome, pool, storedMode, outside>>

\* popup.js: the setTimeout of 2000 ms puts the mode back in the status text
StatusTimeout ==
  /\ popup.status = <<"Cache cleared">>
  /\ popup.pc = "ready"
  /\ popup' = [popup EXCEPT !.status = ModeStatus]
  /\ UNCHANGED <<now, pc, handleCache, didCache, call, loc, hr, xr, dns, net, requests,
                 outcome, pool, urlCache, storedMode, outside>>

\* AdminSpec: requests in mode 'local' that come from the overlay and are
\* answered without a failure of the network, with the popup's clear-cache
\* button and calls of atpiResolver.clearCaches at any moment.
AdminNext ==
  \/ \E url \in LocalUrls : OverlayResolve(url, "local")
  \/ OverlaySet
  \/ ClearCacheClicked
  \/ \E tab \in BOOLEAN : StorageCleared(tab)
  \/ OverlayClearCache
  \/ StatusTimeout
  \/ ClearCaches
  \/ \E p \in Slots, status \in {200} : DnsResponse(p, status)
  \/ \E p \in Slots, data \in { b \in DnsBodies : b.Status = 0 } : DnsJson(p, data)
  \/ \E status \in {200} : DidResponse(status)
  \/ \E data \in PlcDocs : DidJson(data)
  \/ \E status \in RecordStatuses : RecordResponse(status)
  \/ \E body \in RecordBodies : RecordJson(body)

AdminSpec == Init /\ [][AdminNext]_vars

\* popup.js: a mode radio button is changed, up to
\* await chrome.storage.sync.set({ mode: newMode })
ModeChange(newMode) ==
  /\ popup.pc = "ready"
  /\ storedMode' = newMode
  /\ popup' = [popup EXCEPT !.pc = "mode_set"]
  /\ UNCHANGED <<now, pc, handleCache, didCache, call, loc, hr, xr, dns, net, requests,
                 outcome, pool, urlCache, outside>>

\* popup.js: after the preference is stored, status.textContent = `Mode: ${newMode}`
ModeSaved ==
  /\ popup.pc = "mode_set"
  /\ popup' = [popup EXCEPT !.pc = "ready", !.status = <<"Mode: ", storedMode>>]
  /\ UNCHANGED <<now, pc, handleCache, didCache, call, loc, hr, xr, dns, net, requests,
                 outcome, pool, urlCache, storedMode, outside>>

\* the values of the popup's mode radio buttons
RadioModes == {"local", "remote", "auto"}

\* request.mode of a RESOLVE_URL message: the recognised values, none, and
\* one that resolve does not know
MessageModes == Modes \cup {"fast"}

\* ModeSpec: RESOLVE_URL messages with any mode for URLs that need no handle
\* resolution, while the preference is changed in the popup.
ModeUrls == { u \in Urls : u \notin { AtUrl(BobHandle, <<"/", "app.bsky.feed.post", "/", "xyz">>),
                                      AtUrl(AliceHandle, <<>>) } }

ModeNext ==
  \/ \E url \in ModeUrls, mode \in MessageModes : Request(url, mode)
  \/ \E newMode \in RadioModes : ModeChange(newMode)
  \/ ModeSaved
  \/ \E status \in PlcStatuses : DidResponse(status)
  \/ \E data \in PlcDocs : DidJson(data)
  \/ \E status \in RecordStatuses : RecordResponse(status)
  \/ \E body \in RecordBodies : RecordJson(body)
  \/ \E status \in {200, 404} : RemoteResponse(status)
  \/ \E body \in RecordBodies : RemoteJson(body)

ModeSpec == Init /\ [][ModeNext]_vars

\* UrlSpec: the first request after start-up, in mode 'local', for an AT-URL
\* with any path of up to MaxTail tokens, where a segment may be empty;
\* handle, DID and record are answered by the network without timeouts.
PathTokens == {"/", "app.bsky.feed.post", "xyz"}

Tails ==
  {<<>>} \cup { <<"/">> \o t : t \in UNION { [1..n -> PathTokens] : n \in 0..MaxTail } }

PathUrls == { AtUrl(id, t) : id \in {BobHandle, DidWeb}, t \in Tails }

UrlStatuses == RecordStatuses \cup {204, 302, 503}

UrlBodies == RecordBodies \cup { [json |-> "repo"] }

UrlNext ==
  \/ \E url \in PathUrls : pc = "idle" /\ Request(url, "local")
  \/ \E p \in Slots : DnsResponse(p, 200)
  \/ \E p \in Slots, data \in { b \in DnsBodies : b.Status = 0 } : DnsJson(p, data)
  \/ DidResponse(200)
  \/ \E data \in PlcDocs : DidJson(data)
  \/ \E status \in UrlStatuses : RecordResponse(status)
  \/ \E body \in UrlBodies : RecordJson(body)

UrlSpec == Init /\ [][UrlNext]_vars

\* ParseSpec: the first request after start-up, for a handle, with DNS
\* responses of every status and list of up to MaxAnswers answers, and
\* well-known bodies of up to MaxText tokens.
TextTokens == {"did:", "plc:", "web:", "abc123", "\n", " "}

BodyTexts == UNION { [1..n -> TextTokens] : n \in 0..MaxText }

TxtValues ==
  { <<"\"", "did=">> \o DidPlc \o <<"\"">>,
    <<"did=">> \o DidWeb,
    <<"did=">> \o DidKey,
    <<"\"", "did=">> \o DidPlc,
    <<"\"", "\"", "did=">> \o DidPlc \o <<"\"", "\"">>,
    <<"v=spf1">> }

Answers == { [type |-> type, data |-> data] : type \in {16, 5}, data \in TxtValues }

DnsAnswerBodies ==
  { [Status |-> status, Answer |-> answer] :
      status \in {0, 2, 3}, answer \in UNION { [1..n -> Answers] : n \in 0..MaxAnswers } }

ParseNext ==
  \/ pc = "idle" /\ Request(AtUrl(BobHandle, <<>>), "local")
  \/ \E p \in Slots, status \in DnsStatuses : DnsResponse(p, status)
  \/ \E p \in Slots, data \in DnsAnswerBodies : DnsJson(p, data)
  \/ WkResponse(200)
  \/ \E text \in BodyTexts : WkText(text)

ParseSpec == Init /\ [][ParseNext]_vars

\* ConfigSpec: the handle resolver constructed with each of ConstructorOptions,
\* and local-mode requests for the two handles whose strategies fail or succeed.
ConfigInit ==
  /\ now = 0
  /\ pc = "idle"
  /\ handleCache = << >>
  /\ didCache = << >>
  /\ call = [url |-> <<>>, options |-> [mode |-> "local", timeout |-> HOVER_TIMEOUT],
             startTime |-> 0, fellBack |-> FALSE, localError |-> NoError,
             remoteError |-> NoError]
  /\ loc = NoLocals
  /\ hr = NoHandle
  /\ xr = NoXrpc
  /\ dns = NoPromises
  /\ net = [s \in Slots |-> NoFetch]
  /\ popup = PopupReady
  /\ urlCache = NoUrls
  /\ storedMode = InstalledMode
  /\ options \in ConstructorOptions
  /\ rival = NoRival
  /\ overlay = NoOverlay
  /\ requests = <<>>
  /\ outcome = NoOutcome
  /\ pool = SubSeq(RegionalHosts, 1, PoolSize)

ConfigNext ==
  \/ \E h \in Handles : pc = "idle" /\ Request(AtUrl(h, <<>>), "local")
  \/ \E p \in Slots, status \in DnsStatuses : DnsResponse(p, status)
  \/ \E p \in Slots, data \in DnsBodies : DnsJson(p, data)
  \/ \E status \in WkStatuses : WkResponse(status)
  \/ \E text \in WkTexts : WkText(text)
  \/ \E status \in XrpcStatuses : XrpcResponse(status)
  \/ \E body \in XrpcErrorBodies : XrpcErrorJson(body)
  \/ \E data \in XrpcBodies : XrpcJson(data)
  \/ \E i \in 1..Len(getAllServers) : XrpcDraw(getAllServers[i])
  \/ \E status \in PlcStatuses : DidResponse(status)
  \/ \E data \in PlcDocs : DidJson(data)
  \/ \E status \in {200, 404} : RecordResponse(status)
  \/ \E body \in RecordBodies : RecordJson(body)

ConfigSpec == ConfigInit /\ [][ConfigNext]_vars

\* DrawSpec: the XRPC strategy over every non-empty pool of up to MaxListed
\* entries taken from two hosts, so that a pool may list a host twice.
ListedPools == UNION { [1..n -> {RegionalHosts[1], RegionalHosts[2]}] : n \in 1..MaxListed }

DrawInit ==
  /\ now = 0
  /\ pc = "idle"
  /\ handleCache = << >>
  /\ didCache = << >>
  /\ call = [url |-> <<>>, options |-> [mode |-> "local", timeout |-> HOVER_TIMEOUT],
             startTime |-> 0, fellBack |-> FALSE, localError |-> NoError,
             remoteError |-> NoError]
  /\ loc = NoLocals
  /\ hr = NoHandle
  /\ xr = NoXrpc
  /\ dns = NoPromises
  /\ net = [s \in Slots |-> NoFetch]
  /\ popup = PopupReady
  /\ urlCache = NoUrls
  /\ storedMode = InstalledMode
  /\ options = ResolverOptions
  /\ rival = NoRival
  /\ overlay = NoOverlay
  /\ requests = <<>>
  /\ outcome = NoOutcome
  /\ pool \in ListedPools

DrawNext ==
  \/ pc = "idle" /\ Request(AtUrl(AliceHandle, <<>>), "local")
  \/ \E status \in XrpcStatuses \ {200, 400} : XrpcResponse(status)
  \/ XrpcTimeout
  \/ XrpcFetchFails
  \/ \E i \in 1..Len(getAllServers) : XrpcDraw(getAllServers[i])

DrawSpec == DrawInit /\ [][DrawNext]_vars

\* overlay.js showLoading / showData / showError: what the element displays,
\* and the URL whose resolution it displays
Shown(kind, url) == [kind |-> kind, url |-> url]

\* overlay.js handleHover(element, x, y) for element.dataset.atUrl = url, up
\* to the await of the message to the background script, or to its end when
\* resolveUrl answers from urlCache or throws (urlCache[currentMode] is
\* undefined for a mode other than local and remote)
handleHover(o, cache, url) ==
  IF o.currentOverlay.id # 0 /\ o.isPinned THEN o
  ELSE LET id == o.created + 1
           created == [o EXCEPT !.isPinned = FALSE, !.created = id,
                                !.currentOverlay = [id |-> id, url |-> url,
                                                    shown |-> Shown("loading", <<>>)]]
       IN  IF o.currentMode \notin DOMAIN cache
           THEN [created EXCEPT !.currentOverlay.shown = Shown("error", url)]
           ELSE IF url \in cache[o.currentMode]
           THEN [created EXCEPT !.currentOverlay.shown = Shown("data", url)]
           ELSE [created EXCEPT !.calls = @ \cup {[id |-> id, url |-> url,
                                                   mode |-> o.currentMode]}]

\* handleHover after await resolveUrl(url) for the call: the response came
\* with data, or resolveUrl threw (response.error, no response, the 10 s timer)
hoverResumes(o, hover, response) ==
  LET kind == IF response = "data" THEN "data" ELSE "error"
  IN  [o EXCEPT !.calls = @ \ {hover},
                !.currentOverlay = IF @.id # 0
                                   THEN [@ EXCEPT !.shown = Shown(kind, hover.url)]
                                   ELSE @]

\* the 300 ms hover timer fires over an AT URL
Hover(url) ==
  /\ overlay.created < MaxHovers
  /\ overlay' = handleHover(overlay, urlCache, url)
  /\ UNCHANGED <<now, pc, handleCache, didCache, call, loc, hr, xr, dns, net, requests,
                 outcome, pool, popup, urlCache, storedMode, options, rival>>

\* resolveUrl gets the background script's response (or its timer fires):
\* a response with data is put in the cache of the mode the call started in
HoverResponse(hover, response) ==
  /\ hover \in overlay.calls
  /\ urlCache' = IF response = "data"
                 THEN [urlCache EXCEPT ![hover.mode] = @ \cup {hover.url}]
                 ELSE urlCache
  /\ overlay' = hoverResumes(overlay, hover, response)
  /\ UNCHANGED <<now, pc, handleCache, didCache, call, loc, hr, xr, dns, net, requests,
                 outcome, pool, popup, storedMode, options, rival>>

\* the pin button of an overlay that shows data
PinClicked ==
  /\ overlay.currentOverlay.shown.kind = "data"
  /\ overlay' = [overlay EXCEPT !.isPinned = ~@]
  /\ UNCHANGED <<now, pc, handleCache, didCache, call, loc, hr, xr, dns, net, requests,
                 outcome, pool, popup, urlCache, storedMode, options, rival>>

\* the close button of an overlay that shows data
CloseClicked ==
  /\ overlay.currentOverlay.shown.kind = "data"
  /\ overlay' = [overlay EXCEPT !.isPinned = FALSE, !.currentOverlay = NoElement]
  /\ UNCHANGED <<now, pc, handleCache, didCache, call, loc, hr, xr, dns, net, requests,
                 outcome, pool, popup, urlCache, storedMode, options, rival>>

\* a click outside the overlay removes it, pinned or not
ClickedOutside ==
  /\ overlay.currentOverlay.id # 0
  /\ overlay' = [overlay EXCEPT !.currentOverlay = NoElement]
  /\ UNCHANGED <<now, pc, handleCache, didCache, call, loc, hr, xr, dns, net, requests,
                 outcome, pool, popup, urlCache, storedMode, options, rival>>

\* the timer set when the pointer left the link or the overlay fires away
\* from both: an overlay that is not pinned is removed
LeaveTimer ==
  /\ overlay.currentOverlay.id # 0 /\ ~overlay.isPinned
  /\ overlay' = [overlay EXCEPT !.currentOverlay = NoElement]
  /\ UNCHANGED <<now, pc, handleCache, didCache, call, loc, hr, xr, dns, net, requests,
                 outcome, pool, popup, urlCache, storedMode, options, rival>>

\* the 'atpi-mode-changed' event: currentMode = event.detail.mode
OverlayModeChanged(mode) ==
  /\ overlay.currentMode # mode
  /\ overlay' = [overlay EXCEPT !.currentMode = mode]
  /\ UNCHANGED <<now, pc, handleCache, didCache, call, loc, hr, xr, dns, net, requests,
                 outcome, pool, popup, urlCache, storedMode, options, rival>>

HoverUrls == { AtUrl(BobHandle, <<>>), AtUrl(DidWeb, <<>>) }

\* HoverSpec: the content script alone: hovers over two URLs, the responses
\* of the background script in any order, and the overlay's controls.
HoverNext ==
  \/ \E url \in HoverUrls : Hover(url)
  \/ \E hover \in overlay.calls, response \in {"data", "error", "timeout"} :
       HoverResponse(hover, response)
  \/ PinClicked
  \/ CloseClicked
  \/ ClickedOutside
  \/ LeaveTimer
  \/ \E mode \in RadioModes : OverlayModeChanged(mode)

HoverSpec == Init /\ [][HoverNext]_vars

\* the results the three strategies return for a handle
RivalResults ==
  { [did |-> DidPlc, method |-> "dns", provider |-> "unknown"],
    [did |-> DidWeb, method |-> "wellknown"],
    [did |-> DidPlc, method |-> "xrpc", endpoint |-> PDS_PRIMARY] }

\* a second UnifiedHandleResolver.resolve(handle) starts (a second RESOLVE_URL
\* message is handled while the first request waits for the network): its
\* cache check, up to its first await
RivalResolve(handle) ==
  /\ rival.pc = "none"
  /\ handleCache' = cacheAfterGet(handleCache, handle)
  /\ rival' = IF getFromCache(handleCache, handle) # NoResult
              THEN [pc |-> "done", handle |-> handle, missed |-> FALSE, wrote |-> FALSE]
              ELSE [pc |-> "strategies", handle |-> handle, missed |-> TRUE, wrote |-> FALSE]
  /\ UNCHANGED <<now, pc, didCache, call, loc, hr, xr, dns, net, requests, outcome, pool,
                 popup, urlCache, storedMode, options, overlay>>

\* the strategies of the second call have ended, with result or with none:
\* the end of its resolve, cacheResult(handle, result) or the throw
RivalSettles(result) ==
  /\ rival.pc = "strategies"
  /\ handleCache' = IF result = NoResult THEN handleCache
                    ELSE cacheResult(handleCache, rival.handle, result)
  /\ rival' = [rival EXCEPT !.pc = "done", !.wrote = result # NoResult]
  /\ UNCHANGED <<now, pc, didCache, call, loc, hr, xr, dns, net, requests, outcome, pool,
                 popup, urlCache, storedMode, options, overlay>>

\* RaceSpec: a local-mode request for a handle, and a second resolution of a
\* handle that starts and ends at any of the first one's awaits.
RaceNext ==
  \/ \E h \in Handles : pc = "idle" /\ Request(AtUrl(h, <<>>), "local")
  \/ \E h \in Handles : RivalResolve(h)
  \/ \E result \in RivalResults \cup {NoResult} : RivalSettles(result)
  \/ \E p \in Slots, status \in DnsStatuses : DnsResponse(p, status)
  \/ \E p \in Slots, data \in DnsBodies : DnsJson(p, data)
  \/ \E status \in WkStatuses : WkResponse(status)
  \/ \E text \in WkTexts : WkText(text)
  \/ \E status \in XrpcStatuses \ {502} : XrpcResponse(status)
  \/ \E body \in XrpcErrorBodies : XrpcErrorJson(body)
  \/ \E data \in XrpcBodies : XrpcJson(data)
  \/ \E i \in 1..Len(getAllServers) : XrpcDraw(getAllServers[i])
  \/ \E status \in {200} : DidResponse(status)
  \/ \E data \in PlcDocs : DidJson(data)
  \/ \E status \in {200} : RecordResponse(status)
  \/ \E body \in RecordBodies : RecordJson(body)

RaceSpec == Init /\ [][RaceNext]_vars

\* PoolSpec: the XRPC strategy alone (requests for a '.bsky.social' handle),
\* for pools of every size up to MaxPool and every sequence of draws.
PoolInit ==
  /\ now = 0
  /\ pc = "idle"
  /\ handleCache = << >>
  /\ didCache = << >>
  /\ call = [url |-> <<>>, options |-> [mode |-> "local", timeout |-> HOVER_TIMEOUT],
             startTime |-> 0, fellBack |-> FALSE, localError |-> NoError,
             remoteError |-> NoError]
  /\ loc = NoLocals
  /\ hr = NoHandle
  /\ xr = NoXrpc
  /\ dns = NoPromises
  /\ net = [s \in Slots |-> NoFetch]
  /\ popup = PopupReady
  /\ urlCache = NoUrls
  /\ storedMode = InstalledMode
  /\ options = ResolverOptions
  /\ rival = NoRival
  /\ overlay = NoOverlay
  /\ requests = <<>>
  /\ outcome = NoOutcome
  /\ \E n \in 0..MaxPool : pool = SubSeq(RegionalHosts, 1, n)

PoolNext ==
  \/ pc = "idle" /\ Request(AtUrl(AliceHandle, <<>>), "local")
  \/ \E status \in XrpcStatuses \ {200, 400} : XrpcResponse(status)
  \/ XrpcTimeout
  \/ \E i \in 1..Len(getAllServers) : XrpcDraw(getAllServers[i])

PoolSpec == PoolInit /\ [][PoolNext]_vars

\* CacheSpec: the handle cache at its ceiling.  The cache starts with one entry
\* short of HANDLE_CACHE_MAX entries, or with HANDLE_CACHE_MAX, created in the
\* ten seconds before (in insertion order, so with non-decreasing timestamps),
\* and handles are resolved that are not cached, and one that is.
Digits == <<"0", "1", "2", "3", "4", "5", "6", "7", "8", "9">>

FillHandle(n) ==
  <<"u", Digits[(n \div 100) + 1], Digits[((n \div 10) % 10) + 1], Digits[(n % 10) + 1],
    ".example">>

\* the cache after count resolutions, per of them in each second
FilledCache(count, per) ==
  LET entry == [n \in 0..(count - 1) |->
                  [data |-> [did |-> DidPlc, method |-> "dns", provider |-> "unknown"],
                   timestamp |-> n \div per, seq |-> n + 1]]
  IN  [h \in { FillHandle(n) : n \in 0..(count - 1) } |->
         entry[CHOOSE n \in 0..(count - 1) : FillHandle(n) = h]]

CacheInit ==
  /\ now = 10
  /\ pc = "idle"
  /\ \E count \in {HANDLE_CACHE_MAX - 1, HANDLE_CACHE_MAX}, per \in {150, 250, HANDLE_CACHE_MAX} :
       handleCache = FilledCache(count, per)
  /\ didCache = << >>
  /\ call = [url |-> <<>>, options |-> [mode |-> "local", timeout |-> HOVER_TIMEOUT],
             startTime |-> 0, fellBack |-> FALSE, localError |-> NoError,
             remoteError |-> NoError]
  /\ loc = NoLocals
  /\ hr = NoHandle
  /\ xr = NoXrpc
  /\ dns = NoPromises
  /\ net = [s \in Slots |-> NoFetch]
  /\ popup = PopupReady
  /\ urlCache = NoUrls
  /\ storedMode = InstalledMode
  /\ options = ResolverOptions
  /\ rival = NoRival
  /\ overlay = NoOverlay
  /\ requests = <<>>
  /\ outcome = NoOutcome
  /\ pool = SubSeq(RegionalHosts, 1, PoolSize)

CacheUrls ==
  { AtUrl(BobHandle, <<>>), AtUrl(AliceHandle, <<>>), AtUrl(FillHandle(0), <<>>) }

CacheNext ==
  \/ \E url \in CacheUrls :
       /\ Cardinality(DOMAIN handleCache) >= HANDLE_CACHE_MAX - 1
       /\ Request(url, "local")
  \/ \E p \in Slots, status \in DnsStatuses : DnsResponse(p, status)
  \/ \E p \in Slots, data \in DnsBodies : DnsJson(p, data)
  \/ \E status \in WkStatuses \ {200} : WkResponse(status)
  \/ \E status \in XrpcStatuses \ {400} : XrpcResponse(status)
  \/ \E data \in XrpcBodies : XrpcJson(data)
  \/ \E i \in 1..Len(getAllServers) : XrpcDraw(getAllServers[i])
  \/ \E status \in PlcStatuses \ {200} : DidResponse(status)

CacheSpec == CacheInit /\ [][CacheNext]_vars

----------------------------------------------------------------------------
(* Properties.                                                              *)

\* the positions in the request log of the requests of one kind
Kinds(k) == { i \in 1..Len(requests) : requests[i].kind = k }

StrategyRequests == Kinds("dns") \cup Kinds("wellknown") \cup Kinds("xrpc")

Methods(errors) == [i \in 1..Len(errors) |-> errors[i].method]

\* the request in flight (or just finished) ran the strategies for its handle
Miss == hr.handle # <<>> /\ hr.cached = NoResult

\* resolveLocal has ended for the request
LocalEnded == pc = "done" \/ call.fellBack

\* C1: for an uncached handle that does not end with '.bsky.social' the
\* strategies are attempted in the order DNS, Well-Known, XRPC: the DNS queries
\* are the first requests, the well-known request is issued only after DNS
\* has failed, an XRPC query only after well-known has failed too, and once a
\* strategy has succeeded its result is the one returned and no later strategy
\* is invoked.
C1_StrategyOrder ==
  (Miss /\ ~hr.isBskyHandle) =>
    /\ \A i \in Kinds("dns") : i <= Len(DOH_PROVIDERS)
    /\ Cardinality(Kinds("wellknown")) <= 1
    /\ \A i \in Kinds("wellknown") :
         /\ Kinds("dns") # {} /\ \A j \in Kinds("dns") : j < i
         /\ Len(hr.errors) >= 1 /\ hr.errors[1].method = "dns"
    /\ \A i \in Kinds("xrpc") :
         /\ Kinds("wellknown") # {} /\ \A j \in Kinds("wellknown") : j < i
         /\ Len(hr.errors) >= 2 /\ hr.errors[2].method = "wellknown"
    /\ hr.result # NoResult =>
         /\ hr.result.method = "dns" => Kinds("wellknown") \cup Kinds("xrpc") = {}
         /\ hr.result.method = "wellknown" => Kinds("xrpc") = {}
         /\ loc.did = hr.result.did

C1_Witness ==
  /\ Miss /\ ~hr.isBskyHandle
  /\ hr.result # NoResult /\ hr.result.method = "xrpc"
  /\ Methods(hr.errors) = <<"dns", "wellknown">>

Eligible(isBskyHandle) == IF isBskyHandle THEN <<"xrpc">> ELSE <<"dns", "wellknown", "xrpc">>

\* C2: the handle resolver fails only after every eligible strategy (DNS,
\* Well-Known, XRPC; XRPC alone for a '.bsky.social' handle) has been
\* attempted and has failed: whenever local resolution has ended without a
\* DID for the handle, the resolver threw its aggregate error, and at that
\* point every eligible strategy had issued its request and recorded its
\* failure.
C2_FailsOnlyAfterAll ==
  /\ (Miss /\ hr.result = NoResult /\ LocalEnded) => hr.thrown # NoError
  /\ hr.thrown # NoError =>
       /\ hr.result = NoResult
       /\ Methods(hr.errors) = Eligible(hr.isBskyHandle)
       /\ \A i \in 1..Len(hr.errors) : Kinds(hr.errors[i].method) # {}

C2_Witness ==
  /\ hr.thrown # NoError /\ ~hr.isBskyHandle
  /\ hr.errors[1].error.tpl = "DNS resolution failed for handle"
  /\ hr.errors[2].error.tpl = "Well-known fetch timeout"
  /\ Cardinality(Kinds("xrpc")) = 1 + PoolSize

FreshEntry(h) ==
  h \in DOMAIN handleCache /\ now - handleCache[h].timestamp <= HANDLE_CACHE_TTL

\* C3: a request for a handle that has a non-expired entry in the handle
\* cache gets exactly that entry's value (its DID is the one resolution goes
\* on with), leaves the cache as it is, and issues no DNS, well-known or XRPC
\* query, then or later in the request.
C3_CacheHit ==
  /\ [][ \A h \in Handles :
           (Idle /\ ~Idle' /\ FreshEntry(h) /\ loc'.parsed.identifier = h) =>
             /\ hr'.cached = handleCache[h].data
             /\ loc'.did = handleCache[h].data.did
             /\ handleCache' = handleCache
             /\ \A i \in 1..Len(requests') :
                  requests'[i].kind \notin {"dns", "wellknown", "xrpc"} ]_vars
  /\ [](hr.cached # NoResult => StrategyRequests = {})

C3_Witness ==
  /\ ~Idle
  /\ hr.cached # NoResult
  /\ hr.handle \in DOMAIN handleCache
  /\ now - handleCache[hr.handle].timestamp = HANDLE_CACHE_TTL

AggregatorRequests ==
  { i \in 1..Len(requests) : StartsWith(requests[i].url.base, "https://atpi.") }

\* C4: in mode 'local' no request goes to the remote aggregator, whatever the
\* URL and whichever step fails, and a failure of the local resolution is the
\* error the caller gets.
C4_LocalNeverRemote ==
  call.options.mode = "local" =>
    /\ Kinds("remote") = {} /\ AggregatorRequests = {}
    /\ ~call.fellBack
    /\ call.localError # NoError =>
         /\ pc = "done" /\ outcome.status = "error"
         /\ outcome.error = call.localError

C4_Witness ==
  /\ call.options.mode = "local" /\ pc = "done"
  /\ outcome.error.tpl = "Handle not found - user may not exist"
  /\ Len(requests) > 0

\* C5: in mode 'auto', whenever local resolution has failed, for whatever
\* reason, exactly one remote request has been issued, after every local
\* request; and when the remote resolution fails too, the caller gets the
\* remote error.
C5_AutoFallsBack ==
  (call.options.mode = "auto" /\ call.localError # NoError) =>
    /\ call.fellBack
    /\ Kinds("remote") = {Len(requests)}
    /\ (pc = "done" /\ outcome.status = "error") =>
         /\ call.remoteError # NoError
         /\ outcome.error = call.remoteError

C5_Witness ==
  /\ call.options.mode = "auto" /\ pc = "done" /\ outcome.status = "error"
  /\ call.localError.tpl = "Record not found at this AT Protocol URL"
  /\ outcome.error.tpl = "ATPI service error - please try again later"

\* C6: in every mode a URL that does not start with 'at://' fails at once with
\* the invalid-URL error and no network request is issued.
C6_InvalidUrlNoRequest ==
  (call.url # <<>> /\ ~StartsWith(call.url, "at://")) =>
    /\ Len(requests) = 0
    /\ pc = "done" /\ outcome.status = "error"
    /\ outcome.error = Error("URL must start with at://")

\* C7: a local-mode request given timeout T is over within T of its start.
C7_WithinTimeout ==
  (call.options.mode = "local" /\ ~Idle) => now - call.startTime <= call.options.timeout

\* C8: every network call is under its abort timer for its whole duration:
\* while a response, headers or body, is awaited, the timer is armed.
C8_EveryWaitTimed ==
  \A s \in Slots : net[s].phase # "none" => net[s].armed

WkReasons ==
  { "Redirects not allowed for well-known resolution",
    "No well-known record found for handle",
    "HTTP status: Failed to fetch well-known",
    "Empty well-known response for handle",
    "Invalid DID in well-known response",
    "Well-known fetch timeout",
    "Failed to fetch" }

XrpcReasons == { "XRPC resolution failed for handle", "No PDS servers available" }

\* C9: when DNS, Well-Known and XRPC have each failed for a handle that does
\* not end in '.bsky.social', the error thrown by the handle resolver holds
\* exactly three method/reason pairs, in the order dns, wellknown, xrpc, each
\* with a reason of that strategy.
C9_ThreePairs ==
  (hr.thrown # NoError /\ ~hr.isBskyHandle) =>
    /\ hr.thrown.tpl = "Failed to resolve handle" /\ hr.thrown.subject = hr.handle
    /\ Methods(hr.thrown.details) = <<"dns", "wellknown", "xrpc">>
    /\ hr.thrown.details[1].error = ErrorOn("DNS resolution failed for handle", hr.handle)
    /\ hr.thrown.details[2].error.tpl \in WkReasons
    /\ hr.thrown.details[3].error.tpl \in XrpcReasons

C9_Witness ==
  /\ hr.thrown # NoError /\ ~hr.isBskyHandle
  /\ hr.thrown.details[2].error.tpl = "No well-known record found for handle"
  /\ hr.thrown.details[3].error.tpl = "XRPC resolution failed for handle"

\* C10: when handle resolution fails in a local-mode request, the error the
\* caller gets carries the per-method failure reasons.
C10_ReasonsSurfaced ==
  (call.options.mode = "local" /\ pc = "done" /\ hr.thrown # NoError) =>
    outcome.error.details = hr.thrown.details

UnsupportedDid(did) == StartsWith(did, "did:") /\ Len(did) > 1 /\ did[2] \notin {"plc:", "web:"}

\* C11: when resolveDid is called with a DID that is neither did:plc nor
\* did:web, whatever the DID cache holds, local resolution has failed with
\* the unsupported-DID-method error naming that DID, no directory lookup and
\* no record request has been issued (in mode 'local': no request at all),
\* and the DID is not in the cache.
C11_UnsupportedDid ==
  (call.options.mode # "remote" /\ UnsupportedDid(loc.did)) =>
    /\ call.localError = ErrorOn("Unsupported DID method", loc.did)
    /\ Kinds("plc") \cup Kinds("record") = {}
    /\ call.options.mode = "local" => (Len(requests) = 0 /\ pc = "done")
    /\ loc.did \notin DOMAIN didCache

C11_Witness ==
  /\ call.options.mode = "local" /\ pc = "done"
  /\ loc.did = DidKey
  /\ DidPlc \in DOMAIN didCache
  /\ outcome.error.tpl = "Unsupported DID method"

XrpcBases == [i \in Kinds("xrpc") |-> requests[i].url.base]

\* C12: in one XrpcHandleResolver.resolve call in which every query fails,
\* for a pool of N hosts and every sequence of draws: the primary endpoint is
\* queried once, first; at most min(5, N) regional hosts are queried; no host
\* is queried twice; and when the strategy has failed for a non-empty pool,
\* min(5, N) regional hosts were queried.
C12_PoolQueries ==
  LET K == Kinds("xrpc")
      regional == { i \in K : XrpcBases[i] # PDS_PRIMARY }
  IN  /\ \A i \in K : (XrpcBases[i] = PDS_PRIMARY) <=> (i = 1)
      /\ \A i, j \in K : XrpcBases[i] = XrpcBases[j] => i = j
      /\ Cardinality(regional) <= Min(XRPC_MAX_ATTEMPTS, Len(pool))
      /\ \A i \in regional : \E k \in 1..Len(pool) : XrpcBases[i] = <<"https://", pool[k]>>
      /\ hr.thrown # NoError => Cardinality(regional) = Min(XRPC_MAX_ATTEMPTS, Len(pool))

C12_Witness ==
  /\ Len(pool) = MaxPool
  /\ hr.thrown # NoError
  /\ Cardinality(Kinds("xrpc")) = 1 + XRPC_MAX_ATTEMPTS
  /\ XrpcBases[2] = <<"https://", pool[MaxPool]>>

\* C13: the invalid-handle error of an endpoint that answered 400 with an
\* 'InvalidHandle' body is never caught and dropped by the per-host catch:
\* no further host is drawn or queried after it.
C13_InvalidHandleStops ==
  xr.error.tpl = "Invalid handle format" =>
    pc \notin {"xrpc_draw", "xrpc_headers", "xrpc_body", "xrpc_error_body"}

RedirectReasons ==
  { Error("Redirects not allowed for well-known resolution"),
    ErrorHttp("HTTP status: Failed to fetch well-known", 0) }

\* C14: when the well-known host answers with a 3xx redirect, whatever its
\* Location, the well-known strategy fails with that as its recorded reason,
\* the only well-known request of the call is the one to the handle's own
\* host, and the requests issued next are the XRPC strategy's, to the primary
\* endpoint: nothing is sent to the Location.
C14_RedirectNotFollowed ==
  [][ (\E location \in Locations, status \in RedirectStatuses : WkRedirect(location, status)) =>
        /\ hr'.result = NoResult
        /\ Len(hr'.errors) = Len(hr.errors) + 1
        /\ hr'.errors[Len(hr'.errors)].method = "wellknown"
        /\ hr'.errors[Len(hr'.errors)].error \in RedirectReasons
        /\ \A i \in 1..Len(requests') :
             /\ i > Len(requests) =>
                  requests'[i].kind = "xrpc" /\ requests'[i].url.base = PDS_PRIMARY
             /\ requests'[i].kind = "wellknown" =>
                  /\ requests'[i].url.base = <<"https://">> \o hr.handle
                  /\ \A j \in 1..Len(requests') : requests'[j].kind = "wellknown" => j = i
    ]_vars

C14_Witness ==
  /\ Len(hr.errors) >= 2
  /\ hr.errors[2].method = "wellknown" /\ hr.errors[2].error \in RedirectReasons
  /\ Cardinality(Kinds("wellknown")) = 1
  /\ pc = "xrpc_headers"

\* C15: DnsHandleResolver.resolve returns as soon as one provider has
\* delivered a valid answer: it is never still waiting for the other
\* providers once one of them has settled with a result.
C15_FirstSuccessReturns ==
  (\E p \in Slots : dns[p].state = "settled" /\ dns[p].value # NoResult) => pc # "dns_wait"

\* DnsHandleResolver.resolve has been called and is over
DnsEnded == Miss /\ ~hr.isBskyHandle /\ pc # "dns_wait"

\* C16: when DnsHandleResolver.resolve is over, it has failed if and only if
\* every provider failed (HTTP error, non-zero Status, no valid DID, timeout,
\* network error); when some provider delivered a valid answer, the strategy
\* succeeded with a provider's answer, whatever happened to the others.
C16_FailsIffAllFail ==
  DnsEnded =>
    /\ \A p \in Slots : dns[p].state = "settled"
    /\ (Len(hr.errors) > 0 /\ hr.errors[1].method = "dns")
         <=> (\A p \in Slots : dns[p].value = NoResult)
    /\ (\E p \in Slots : dns[p].value # NoResult) =>
         /\ hr.errors = <<>>
         /\ hr.result \in { dns[p].value : p \in Slots } \ {NoResult}
         /\ loc.did = hr.result.did

C16_Witness ==
  /\ DnsEnded
  /\ dns[1].value = NoResult /\ dns[2].value # NoResult
  /\ hr.result # NoResult /\ hr.result.method = "dns"

\* the entries of the cache before a step that are gone after it
Evicted == DOMAIN handleCache \ DOMAIN handleCache'

\* C17: an insert into the handle cache that makes it exceed
\* HANDLE_CACHE_MAX entries removes exactly floor(size * 0.2) entries, size
\* being the size with the new entry; no removed entry has a later
\* timestamp than an entry that is kept; the entries kept are unchanged; and
\* an insert that leaves the cache at or below the ceiling removes nothing.
C17_Eviction ==
  [][ \A h \in DOMAIN handleCache' \ DOMAIN handleCache :
        LET size == Cardinality(DOMAIN handleCache) + 1
        IN  /\ handleCache'[h].timestamp = now
            /\ \A k \in DOMAIN handleCache' \ {h} :
                 /\ k \in DOMAIN handleCache
                 /\ handleCache'[k].data = handleCache[k].data
                 /\ handleCache'[k].timestamp = handleCache[k].timestamp
            /\ IF size > HANDLE_CACHE_MAX
               THEN /\ Cardinality(Evicted) = (size * 2) \div 10
                    /\ \A old \in { handleCache[a].timestamp : a \in Evicted } :
                         \A kept \in { handleCache'[b].timestamp : b \in DOMAIN handleCache' } :
                           old <= kept
               ELSE Evicted = {}
    ]_vars

C17_Witness ==
  /\ Cardinality(DOMAIN handleCache) = HANDLE_CACHE_MAX + 1 - ((HANDLE_CACHE_MAX + 1) * 2) \div 10
  /\ BobHandle \in DOMAIN handleCache
  /\ FillHandle(0) \notin DOMAIN handleCache
  /\ FillHandle(HANDLE_CACHE_MAX - 2) \in DOMAIN handleCache

\* the endpoint of the DID of the request came from the DID cache: the record
\* was asked for and the directory was not
DidServed ==
  /\ ~Idle
  /\ loc.did \in DOMAIN didCache
  /\ Kinds("record") # {}
  /\ Kinds("plc") = {}

\* C18: in the handle cache and in the DID cache a step changes the
\* timestamp of an entry only if the entry had expired by then (it is then a
\* new entry, created by a resolution that was not served by the old one), so
\* a read leaves the timestamp alone; and a value served from a cache is that
\* of an entry created no longer ago than the time-to-live (handle cache:
\* age <= HANDLE_CACHE_TTL, DID cache: age < CACHE_TTL).
C18_NoSlidingExpiry ==
  /\ [][ /\ \A h \in DOMAIN handleCache \cap DOMAIN handleCache' :
              handleCache'[h].timestamp # handleCache[h].timestamp =>
                cacheExpired(handleCache, h)
         /\ \A d \in DOMAIN didCache \cap DOMAIN didCache' :
              didCache'[d].timestamp # didCache[d].timestamp =>
                ~didCacheHit(didCache, d) ]_vars
  /\ [](~Idle /\ hr.cached # NoResult =>
          /\ hr.handle \in DOMAIN handleCache
          /\ hr.cached = handleCache[hr.handle].data
          /\ now - handleCache[hr.handle].timestamp <= HANDLE_CACHE_TTL)
  /\ [](DidServed => now - didCache[loc.did].timestamp < CACHE_TTL)

\* past the time-to-live the handle was resolved anew, and the DID entry
\* created at the start is still in the cache but not served: the directory
\* is asked
C18_Witness ==
  /\ ~Idle
  /\ now = HANDLE_CACHE_TTL + 1
  /\ hr.handle = BobHandle /\ hr.cached = NoResult
  /\ BobHandle \in DOMAIN handleCache
  /\ handleCache[BobHandle].timestamp = now
  /\ loc.did \in DOMAIN didCache
  /\ didCache[loc.did].timestamp = 0
  /\ Kinds("plc") # {}

\* C19: the step of the popup's clear-cache handling that sets the status
\* text to 'Cache cleared', and the delivery of its CLEAR_CACHE message,
\* leave the resolver's handle cache and DID cache empty.
C19_PopupClearsResolver ==
  [][ StorageCleared(TRUE) \/ StorageCleared(FALSE) \/ OverlayClearCache =>
        handleCache' = << >> /\ didCache' = << >> ]_vars

\* C20: clearCaches changes nothing but the two caches, which it leaves
\* empty, in every state the resolver can be in, and applied to its own
\* result it changes nothing; a call of it is such a step.
C20_ClearCaches ==
  /\ [](LET once == clearCaches(Cur)
        IN  /\ once.didCache = << >> /\ once.handleCache = << >>
            /\ once = [Cur EXCEPT !.didCache = << >>, !.handleCache = << >>]
            /\ clearCaches(once) = once)
  /\ [][ ClearCaches =>
           /\ didCache' = << >> /\ handleCache' = << >>
           /\ <<pc, call, loc, hr, xr, dns, net, requests, outcome>>'
                = <<pc, call, loc, hr, xr, dns, net, requests, outcome>> ]_vars

\* the caches were cleared while a request served from the handle cache was
\* waiting for the record
C20_Witness ==
  /\ pc = "record_headers"
  /\ hr.cached # NoResult
  /\ Kinds("plc") = {}
  /\ handleCache = << >>
  /\ didCache = << >>

Recognised == {"local", "remote", "auto"}

\* C21: a RESOLVE_URL message whose mode is absent or not one of 'local',
\* 'remote', 'auto' is resolved in the mode of the persisted preference; and
\* while the preference is 'local', a request with an unrecognised mode does
\* not fall back to the remote aggregator.
C21_ModeFromPreference ==
  /\ [][ \A url \in ModeUrls, mode \in MessageModes \ Recognised :
           Request(url, mode) => call'.options.mode = storedMode ]_vars
  /\ [][ /\ storedMode = "local" /\ storedMode' = "local"
         /\ call'.options.mode \notin Recognised
         => ~call'.fellBack ]_vars

\* C22: the value validateUrl gave for the URL of the request has a
\* collection whenever it has a record key.
C22_RkeyImpliesCollection ==
  loc.parsed.ok /\ loc.parsed.rkey # Null => loc.parsed.collection # Null

Method(i) == requests[i].url.path[2]

Param(i, k) == requests[i].url.query[k]

\* C27: the record request goes to the resolved endpoint with the resolved
\* DID as its repo parameter, and is a getRecord request for collection and
\* record key when the parsed URL has both, a listRecords request for the
\* collection with limit 50 when it has a collection and no record key, a
\* describeRepo request with no other parameter when it has neither, and in
\* every case one of these three.
C27_RecordRequestShape ==
  \A i \in Kinds("record") :
    LET parsed == loc.parsed
        n == Len(requests[i].url.query)
    IN  /\ requests[i].url.base = loc.serviceEndpoint
        /\ requests[i].url.path[1] = "/xrpc/"
        /\ Param(i, 1) = <<"repo", loc.did>>
        /\ StartsWith(loc.did, "did:")
        /\ parsed.collection # Null /\ parsed.rkey # Null =>
              /\ Method(i) = "com.atproto.repo.getRecord" /\ n = 3
              /\ Param(i, 2) = <<"collection", parsed.collection>>
              /\ Param(i, 3) = <<"rkey", parsed.rkey>>
        /\ parsed.collection # Null /\ parsed.rkey = Null =>
              /\ Method(i) = "com.atproto.repo.listRecords" /\ n = 3
              /\ Param(i, 2) = <<"collection", parsed.collection>>
              /\ Param(i, 3) = <<"limit", <<"50">> >>
        /\ parsed.collection = Null /\ parsed.rkey = Null =>
              /\ Method(i) = "com.atproto.repo.describeRepo" /\ n = 1
        /\ Method(i) \in {"com.atproto.repo.getRecord", "com.atproto.repo.listRecords",
                          "com.atproto.repo.describeRepo"}

\* the records of a collection of a handle's repository are asked for
C27_Witness ==
  /\ pc = "record_headers"
  /\ hr.handle = BobHandle
  /\ loc.parsed.collection = <<"xyz">> /\ loc.parsed.rkey = Null
  /\ \E i \in Kinds("record") :
        Method(i) = "com.atproto.repo.listRecords" /\ Param(i, 1) = <<"repo", DidPlc>>

\* what the claim says of a status that is not 2xx
StatusReason(status) ==
  CASE status = 400 -> Error("Invalid AT Protocol URL or record not found")
    [] status = 404 -> Error("Record not found at this AT Protocol URL")
    [] status \in {401, 403} -> Error("Access denied - this record may be private")
    [] status >= 500 -> Error("Server error - the AT Protocol service is unavailable")
    [] OTHER -> ErrorHttp("Failed to resolve URL (HTTP status)", status)

\* C28: in mode 'local' a record response with a status that is not 2xx
\* ends the request with the error that belongs to the status: 400, 404,
\* 401 or 403, 500 and above, and any other status with the status in the
\* message; and after a 2xx status the parsed body is what is returned.
C28_StatusReasons ==
  /\ [][ \A status \in UrlStatuses :
           RecordResponse(status) /\ ~Ok(status) =>
             /\ pc' = "done"
             /\ outcome' = [status |-> "error", data |-> "", error |-> StatusReason(status)]
       ]_vars
  /\ [][ \A status \in UrlStatuses :
           RecordResponse(status) /\ Ok(status) => pc' = "record_body" /\ outcome' = NoOutcome
       ]_vars
  /\ [][ \A body \in UrlBodies \ {BadJson} :
           RecordJson(body) =>
             outcome' = [status |-> "ok", data |-> body.json, error |-> NoError] ]_vars

\* a record request answered 401 or 403 ended as a private record
C28_Witness ==
  /\ pc = "done"
  /\ Kinds("record") # {}
  /\ outcome.error = Error("Access denied - this record may be private")
  /\ loc.parsed.rkey # Null

\* the request log holds one GET, to the aggregator, for the URL of the call
OneRemoteGet ==
  /\ Len(requests) = 1
  /\ requests[1].kind = "remote"
  /\ requests[1].url = HttpUrl(<<"https://atpi.">> \o call.url, <<>>, <<>>)

\* no local step was taken and no step of the call writes a cache
NothingLocal == loc = NoLocals /\ hr = NoHandle /\ xr = NoXrpc /\ dns = NoPromises

IsPlc(did) == StartsWith(did, "did:") /\ Len(did) > 1 /\ did[2] = "plc:"

IsWeb(did) == StartsWith(did, "did:") /\ Len(did) > 1 /\ did[2] = "web:"

\* the step ends a directory lookup with an endpoint
LookupSucceeds == pc = "did_body" /\ pc' = "record_headers"

\* the step calls resolveDid
ResolveDidCalled ==
  /\ pc \notin {"did_headers", "did_body", "record_headers", "record_body"}
  /\ pc' \in {"did_headers", "record_headers"}

\* C24: a step changes the DID cache only by ending a directory lookup of a
\* did:plc DID with an endpoint, and every such step puts that endpoint under
\* that DID with the time of the step and leaves the other entries alone; the
\* endpoint of a did:web DID is derived without a request to the directory
\* and is never in the cache; and a resolveDid of a did:plc DID whose entry
\* is younger than CACHE_TTL goes on to the record request with the entry's
\* endpoint, without a request to the directory.
C24_DidCacheWrites ==
  /\ [][ didCache' # didCache => LookupSucceeds ]_vars
  /\ [][ LookupSucceeds =>
           /\ IsPlc(loc.did) /\ loc'.did = loc.did
           /\ DOMAIN didCache' = DOMAIN didCache \cup {loc.did}
           /\ didCache'[loc.did] = [serviceEndpoint |-> loc'.serviceEndpoint, timestamp |-> now]
           /\ \A d \in DOMAIN didCache \ {loc.did} : didCache'[d] = didCache[d] ]_vars
  /\ [](\A d \in DOMAIN didCache : IsPlc(d))
  /\ [](IsWeb(loc.did) /\ Kinds("record") # {} =>
          /\ Kinds("plc") = {}
          /\ loc.serviceEndpoint = webEndpoint(loc.did))
  /\ [][ ResolveDidCalled /\ didCacheHit(didCache, loc'.did) =>
           /\ pc' = "record_headers"
           /\ loc'.serviceEndpoint = didCache[loc'.did].serviceEndpoint
           /\ \A i \in 1..Len(requests') : requests'[i].kind # "plc"
           /\ didCache' = didCache ]_vars

\* a second resolution of a did:plc URL, a second after the first, is served
\* from the DID cache
C24_Witness ==
  /\ DidServed
  /\ hr.handle = <<>>
  /\ IsPlc(loc.did)
  /\ now - didCache[loc.did].timestamp = 1
  /\ loc.serviceEndpoint = didCache[loc.did].serviceEndpoint

\* C25: in the request log of one call the well-known request, the directory
\* lookup, the record request and the remote GET each occur at most once,
\* each DNS provider and each XRPC server is asked at most once, the requests
\* of one strategy or step are consecutive (none is taken up again after
\* another has begun), a remote GET is the last request, and no strategy has
\* failed twice.
C25_NothingRetried ==
  /\ \A k \in {"wellknown", "plc", "record", "remote"} : Cardinality(Kinds(k)) <= 1
  /\ Cardinality(Kinds("dns")) <= Len(DOH_PROVIDERS)
  /\ \A i, j \in Kinds("dns") \cup Kinds("xrpc") :
       i # j => requests[i].url.base # requests[j].url.base
  /\ \A i, j, k \in 1..Len(requests) :
       i < j /\ j < k /\ requests[i].kind = requests[k].kind =>
         requests[j].kind = requests[i].kind
  /\ \A i \in Kinds("remote") : i = Len(requests)
  /\ \A i, j \in 1..Len(hr.errors) : i # j => hr.errors[i].method # hr.errors[j].method

\* a call in mode 'auto' went through every strategy and step it has and failed
C25_Witness ==
  /\ pc = "done" /\ outcome.status = "error"
  /\ call.options.mode = "auto"
  /\ \A k \in {"dns", "wellknown", "xrpc", "remote"} : Kinds(k) # {}
  /\ Len(hr.errors) = 3

\* the errors with which resolveDid fails
DidErrors ==
  {"DID not found or inaccessible", "No AT Protocol server found for this DID",
   "Unsupported DID method"}

\* C26: handle strategies are queried only for an identifier that does not
\* start with 'did:'; the directory is asked only for a DID that came with
\* the URL or out of handle resolution, after every strategy request; the
\* record is asked for only at a resolved endpoint, after the directory; and
\* once handle resolution has failed neither the directory nor the record is
\* asked for, once resolveDid has failed the record is not.
C26_LocalStepOrder ==
  /\ StrategyRequests # {} \/ hr.handle # <<>> =>
       /\ ~StartsWith(loc.parsed.identifier, "did:")
       /\ hr.handle = loc.parsed.identifier
  /\ \A i \in Kinds("plc") :
       /\ StartsWith(loc.did, "did:")
       /\ hr.handle = <<>> => loc.did = loc.parsed.identifier
       /\ hr.handle # <<>> =>
            \/ hr.result # NoResult /\ loc.did = hr.result.did
            \/ hr.cached # NoResult /\ loc.did = hr.cached.did
       /\ \A j \in StrategyRequests : j < i
  /\ \A i \in Kinds("record") :
       /\ loc.serviceEndpoint # <<>>
       /\ requests[i].url.base = loc.serviceEndpoint
       /\ \A j \in StrategyRequests \cup Kinds("plc") : j < i
       /\ \/ IsWeb(loc.did) /\ loc.serviceEndpoint = webEndpoint(loc.did)
          \/ /\ loc.did \in DOMAIN didCache
             /\ didCache[loc.did].serviceEndpoint = loc.serviceEndpoint
  /\ hr.thrown # NoError => Kinds("plc") \cup Kinds("record") = {}
  /\ call.localError.tpl \in DidErrors => Kinds("record") = {}

\* a handle was resolved by DNS, its DID by the directory, and the record is
\* being fetched
C26_Witness ==
  /\ pc = "record_headers"
  /\ hr.result # NoResult /\ hr.result.method = "dns"
  /\ Kinds("dns") # {} /\ Kinds("plc") # {} /\ Kinds("record") # {}

\* text[a+1 .. b] is the first line of the body without the white space
\* around the body
FirstLineAt(text, a, b) ==
  /\ a <= b
  /\ \A i \in 1..a : IsSpace(text[i])
  /\ \A i \in (a + 1)..b : text[i] # "\n"
  /\ IF a = b
     THEN \A i \in 1..Len(text) : IsSpace(text[i])
     ELSE /\ ~IsSpace(text[a + 1])
          /\ \/ ~IsSpace(text[b]) /\ \A i \in (b + 1)..Len(text) : IsSpace(text[i])
             \/ /\ b < Len(text) /\ text[b + 1] = "\n"
                /\ \E i \in (b + 2)..Len(text) : ~IsSpace(text[i])

PlcOrWeb(did) == Len(did) >= 2 /\ did[1] = "did:" /\ did[2] \in {"plc:", "web:"}

\* C29: whatever the body of a 2xx well-known response is when it arrives,
\* it has a first line (what is left of the body when the white space around
\* it and everything from the first line break on are taken away); if it starts with 'did:plc:' or 'did:web:' the strategy
\* succeeds with it as the DID and the method 'wellknown', and otherwise,
\* empty or not, the strategy fails; the body did:plc:abc123 followed by a
\* line break gives did:plc:abc123.
C29_WellKnownFirstLine ==
  pc = "wk_body" =>
    /\ \A text \in BodyTexts :
         LET after == wkText(Cur, text).hr
         IN  /\ \E a, b \in 0..Len(text) : FirstLineAt(text, a, b)
             /\ \A a, b \in 0..Len(text) :
                  FirstLineAt(text, a, b) =>
                    LET did == SubSeq(text, a + 1, b)
                    IN  IF PlcOrWeb(did)
                        THEN /\ after.result = [did |-> did, method |-> "wellknown"]
                             /\ after.errors = hr.errors
                        ELSE /\ after.result = NoResult
                             /\ Len(after.errors) = Len(hr.errors) + 1
                             /\ after.errors[Len(after.errors)].method = "wellknown"
    /\ wkText(Cur, DidPlc \o <<"\n">>).hr.result = [did |-> DidPlc, method |-> "wellknown"]

\* the well-known strategy gave a did:web DID
C29_Witness ==
  /\ hr.result # NoResult
  /\ hr.result.method = "wellknown"
  /\ hr.result.did = <<"did:", "web:", "abc123">>
  /\ Len(hr.errors) = 1

\* the text of a TXT answer without one pair of double quotes around it
Stripped(t) ==
  IF Len(t) >= 1 /\ t[1] = "\"" /\ t[Len(t)] = "\"" THEN SubSeq(t, 2, Len(t) - 1) ELSE t

\* the answer passes the checks
Passes(answer) ==
  /\ answer.type = 16
  /\ Len(Stripped(answer.data)) >= 1 /\ Stripped(answer.data)[1] = "did="
  /\ PlcOrWeb(Tail(Stripped(answer.data)))

\* C30: whatever the body of a provider's response is when it arrives, the
\* value the provider's query settles with is a DID exactly if the Status of
\* the body is 0 and one of its answers is a TXT answer whose text, without one pair of double quotes around it, begins
\* with 'did=' followed by a DID that starts with 'did:plc:' or 'did:web:';
\* the DID is that of the first such answer, with method 'dns'; otherwise the
\* query has failed.
C30_DnsParse ==
  \A p \in Slots :
    pc = "dns_wait" /\ net[p].phase = "body" =>
      \A data \in DnsAnswerBodies :
        LET passing == { i \in 1..Len(data.Answer) : Passes(data.Answer[i]) }
            value == dnsJson(Cur, p, data).dns[p].value
        IN  IF data.Status = 0 /\ passing # {}
            THEN \E i \in passing :
                   /\ \A j \in passing : i <= j
                   /\ value = [did |-> Tail(Stripped(data.Answer[i].data)),
                               method |-> "dns", provider |-> "unknown"]
            ELSE value = NoResult

\* both providers answered and the DNS strategy gave the did:web DID
C30_Witness ==
  /\ hr.result # NoResult
  /\ hr.result.method = "dns"
  /\ hr.result.did = DidWeb
  /\ dns[1].value = NoResult
  /\ dns[2].value # NoResult

\* C31: for an uncached handle that ends with '.bsky.social' no DNS query and
\* no well-known request is issued, the first request is the XRPC query of
\* the primary endpoint, and when the resolver throws, its error carries the
\* xrpc method/reason pair and no other.
C31_BskyStraightToXrpc ==
  (Miss /\ EndsWith(hr.handle, ".bsky.social")) =>
    /\ Kinds("dns") \cup Kinds("wellknown") = {}
    /\ Len(requests) >= 1 /\ requests[1].kind = "xrpc"
    /\ requests[1].url.base = PDS_PRIMARY
    /\ hr.thrown # NoError =>
         /\ Methods(hr.thrown.details) = <<"xrpc">>
         /\ hr.thrown.details = hr.errors

C31_Witness ==
  /\ Miss /\ EndsWith(hr.handle, ".bsky.social")
  /\ hr.thrown # NoError
  /\ hr.thrown.details[1].error.tpl = "XRPC resolution failed for handle"
  /\ Cardinality(Kinds("xrpc")) = 1 + PoolSize

\* C32: the shortcut for '.bsky.social' handles can be overridden: under the
\* resolver constructed with the shortcut switched off, an uncached handle
\* that ends with '.bsky.social' is resolved in the full order, its first
\* requests being the DNS queries.
C32_SkipOverridable ==
  (options.skipBskySocial = "false" /\ Miss /\ EndsWith(hr.handle, ".bsky.social")) =>
    /\ Len(requests) >= 1
    /\ requests[1].kind = "dns"

\* C33: two overlapping calls of UnifiedHandleResolver.resolve for one
\* uncached handle never both miss the cache, both run the strategies and
\* both write the entry of the handle.
C33_SerializedCacheAccess ==
  ~ /\ Miss /\ hr.result # NoResult
    /\ rival.missed /\ rival.wrote
    /\ rival.handle = hr.handle

\* the request log has a request of strategy method for handle h
AskedFor(method, h) ==
  \E i \in Kinds(method) :
    IF method = "wellknown" THEN requests[i].url.base = <<"https://">> \o h
    ELSE IF method = "dns" THEN requests[i].url.query[1] = <<"name", <<"_atproto.">> \o h>>
    ELSE requests[i].url.query[1] = <<"handle", h>>

\* the position at which the response of strategy method is taken
TakenAt(method) ==
  IF method = "dns" THEN "dns_wait" ELSE IF method = "wellknown" THEN "wk_body" ELSE "xrpc_body"

\* C34: every entry of the handle cache has a method among dns, wellknown and
\* xrpc and a DID that starts with 'did:plc:' or 'did:web:'; and an entry is
\* written only under the handle that was passed to resolve, with the result
\* that the strategy named by its method has just returned for a request for
\* that handle, after a cache miss.
C34_CacheEntries ==
  /\ [](\A h \in DOMAIN handleCache :
          /\ handleCache[h].data.method \in {"dns", "wellknown", "xrpc"}
          /\ PlcOrWeb(handleCache[h].data.did))
  /\ [][ \A h \in DOMAIN handleCache' :
           (h \notin DOMAIN handleCache \/ handleCache'[h] # handleCache[h]) =>
             /\ h = loc'.parsed.identifier /\ h = hr'.handle
             /\ hr'.cached = NoResult /\ hr.result = NoResult
             /\ handleCache'[h].data = hr'.result
             /\ handleCache'[h].timestamp = now
             /\ pc = TakenAt(hr'.result.method)
             /\ AskedFor(hr'.result.method, h) ]_vars

C34_Witness ==
  /\ BobHandle \in DOMAIN handleCache
  /\ handleCache[BobHandle].data.method = "xrpc"
  /\ handleCache[BobHandle].data.endpoint # PDS_PRIMARY
  /\ handleCache[BobHandle].timestamp > HANDLE_CACHE_TTL

\* on this step the handle resolver, the local resolution or the remote
\* resolution of the request in flight fails
Failing ==
  \/ hr'.thrown # NoError /\ (hr.thrown = NoError \/ Idle)
  \/ call'.localError # NoError /\ (call.localError = NoError \/ Idle)
  \/ call'.remoteError # NoError /\ (call.remoteError = NoError \/ Idle)

\* C35: a step on which an operation fails (the handle resolver throws,
\* resolveDid throws, the record fetch or the remote GET fails) leaves the
\* handle cache and the DID cache as they are; after the handle resolver has
\* thrown the handle has no entry, after resolveDid has thrown the DID has
\* no entry that can be served; and the entries written by the earlier steps
\* of a request whose later step failed are still there.
C35_FailuresCacheNothing ==
  /\ [][ Failing => handleCache' = handleCache /\ didCache' = didCache ]_vars
  /\ [](hr.thrown # NoError => hr.handle \notin DOMAIN handleCache)
  /\ [](call.localError.tpl \in DidErrors => ~didCacheHit(didCache, loc.did))
  /\ []((call.localError # NoError /\ Miss /\ hr.result # NoResult) =>
          /\ hr.handle \in DOMAIN handleCache
          /\ handleCache[hr.handle].data = hr.result)
  /\ []((call.localError # NoError /\ Kinds("record") # {} /\ IsPlc(loc.did)) =>
          /\ loc.did \in DOMAIN didCache
          /\ didCache[loc.did].serviceEndpoint = loc.serviceEndpoint)

\* the record fetch of a request failed after its handle and its DID had
\* been resolved and cached, and the remote resolution failed too
C35_Witness ==
  /\ pc = "done" /\ call.options.mode = "auto"
  /\ call.localError.tpl = "Record not found at this AT Protocol URL"
  /\ call.remoteError # NoError
  /\ Miss /\ hr.result # NoResult /\ hr.handle \in DOMAIN handleCache
  /\ Kinds("plc") # {} /\ loc.did \in DOMAIN didCache

\* the providers that answered with a DID, and the first of them in the
\* configured list
DnsHits == { p \in Slots : dns[p].value # NoResult }

FirstListed == CHOOSE p \in DnsHits : \A q \in DnsHits : p <= q

C37_DrawLoopTerminates ==
  pc = "xrpc_draw" =>
    \E i \in 1..Len(getAllServers) : xrpcDraw(Cur, getAllServers[i]).pc # "xrpc_draw"

\* C38: in mode 'auto' a request goes to the remote aggregator only after the
\* local resolution has failed; when the local resolution succeeds, the call
\* ends with its result, the response to the record request, and no request
\* has been sent to the aggregator.
C38_AutoLocalSuccess ==
  call.options.mode = "auto" =>
    /\ (Kinds("remote") # {} \/ AggregatorRequests # {}) => call.localError # NoError
    /\ (pc = "done" /\ call.localError = NoError) =>
         /\ outcome.status = "ok" /\ outcome.data = "record"
         /\ ~call.fellBack
         /\ Kinds("remote") = {} /\ AggregatorRequests = {}
         /\ Kinds("record") = {Len(requests)}

C38_Witness ==
  /\ call.options.mode = "auto" /\ pc = "done"
  /\ call.localError = NoError /\ outcome.status = "ok"
  /\ Miss /\ hr.result # NoResult /\ hr.result.method = "wellknown"
  /\ Kinds("plc") # {} /\ Kinds("record") # {}

\* C39: whatever the interleaving of hovers and responses, the data or the
\* error that the displayed overlay shows is that of the URL the overlay was
\* created for.
C39_OverlayShowsItsUrl ==
  (overlay.currentOverlay.id # 0 /\ overlay.currentOverlay.shown.kind \in {"data", "error"}) =>
    overlay.currentOverlay.shown.url = overlay.currentOverlay.url

====
